---- MODULE Spec2Model ----
(***************************************************************************)
(* Submission judging and progress ranking engine of the e-learning        *)
(* backend (src/controllers/scoreController.js) over the tables and the    *)
(* constraints of the SQL migrations.                                      *)
(*                                                                         *)
(* Every request handler is an async function: the code between two        *)
(* awaits runs without interruption, and each awaited store call is one    *)
(* atomic statement at the database. A handler is therefore a sequence of  *)
(* actions, one per await, and the actions of different requests           *)
(* interleave freely.                                                      *)
(*                                                                         *)
(* Numbers: a percentage is held in hundredths (66.67 is 6667), which is   *)
(* what a NUMERIC(5,2) column holds. Pass-through columns that no handler  *)
(* branch reads (time_taken_seconds, created_at, updated_at, the question  *)
(* text inside an answer) are left out of the rows.                        *)
(***************************************************************************)
EXTENDS Integers, Sequences, FiniteSets, TLC

VARIABLES
  practice_attempts,   \* table practice_attempts: a set of rows
  practice_scores,     \* table practice_scores: (student, topic) -> row or NoRow
  coding_submissions,  \* table coding_submissions: a set of rows
  coding_practices,    \* table coding_practices: topic -> row or NoRow
  topics,              \* table topics: topic id handed out so far -> row or NoRow
  courses,             \* table courses: course id handed out so far -> row or NoRow
  pc,                  \* per request: the await the handler is suspended at
  call,                \* per request: handler, authenticated student, body
  loc,                 \* per request: the handler's local constants
  res,                 \* per request: the response sent (status 0: none yet)
  storeCalls,          \* per request: number of store calls issued so far
  execLog,             \* per request: each executePiston call, its stdin and result
  socket               \* per request: the client connection, "open" or "destroyed"

vars == <<practice_attempts, practice_scores, coding_submissions, coding_practices,
          topics, courses, pc, call, loc, res, storeCalls, execLog, socket>>

\* The tables of the course content, which no handler of a learner writes.
contentVars == <<coding_practices, topics, courses>>

\* What the practice handlers leave alone, and what the judge leaves alone.
judgeVars == <<coding_submissions, contentVars, execLog, socket>>
practiceVars == <<practice_attempts, practice_scores>>

-----------------------------------------------------------------------------
(* Bounds *)

MaxReqs == 2        \* requests over a behaviour
MaxInFlight == 2    \* requests in flight at the same time
MaxAnswers == 3     \* answers in one practice attempt made on its own
MaxRaceAnswers == 1 \* answers in one practice attempt made among others
MaxScoreInput == 2  \* largest score / total a caller posts to /practice

ReqIds == 1..MaxReqs
Students == {"s1", "s2"}
Topics == {"t1", "t2"}
\* The topic the practice requests of a behaviour are about.
PracticeTopics == {"t1"}

-----------------------------------------------------------------------------
(* JavaScript values *)

\* Numbers are integers of up to 31 bits. NaN, the result of 0/0, and the two
\* infinities, the results of x/0, are the integers at the two ends of that
\* range, which no finite number of the handlers takes: the scores are at
\* most 100000 in size, the totals at most 65535 and the percentages at most
\* 10000 * 100000 hundredths.
Infinity == 2147483647
NegInfinity == 0 - 2147483646
NaN == 0 - 2147483647

NoRow == [none |-> TRUE]
NoCall == [op |-> "none"]
NoLoc == [none |-> TRUE]
NoRes == [status |-> 0]

\* An answer of a practice attempt: { selectedOption, correctOption, ... }.
AnswerPool ==
  { [selectedOption |-> "A", correctOption |-> "A"],
    [selectedOption |-> "B", correctOption |-> "A"] }

RECURSIVE SeqsUpTo(_, _)
SeqsUpTo(S, n) ==
  IF n = 0 THEN { <<>> }
  ELSE LET shorter == SeqsUpTo(S, n - 1)
       IN shorter \cup { Append(q, x) : q \in { p \in shorter : Len(p) = n - 1 }, x \in S }

\* Bodies of POST /practice-attempt with up to n answers: topicId or answers
\* may be missing, topicId may be ''.
PracticeAttemptBodies(n) ==
  { [topicId |-> t, answers |-> a] : t \in PracticeTopics, a \in SeqsUpTo(AnswerPool, n) }
    \cup { [answers |-> <<>>] }
    \cup { [topicId |-> t] : t \in PracticeTopics }
    \cup { [topicId |-> "", answers |-> << [selectedOption |-> "A", correctOption |-> "A"] >>] }

\* A body of POST /practice-attempt with 160 answers, of which the first 23
\* are correct: 14.375 per cent.
LongAttemptBodies ==
  { [topicId |-> t,
     answers |-> [i \in 1..160 |->
                    [selectedOption |-> IF i <= 23 THEN "A" ELSE "B",
                     correctOption |-> "A"]]] : t \in PracticeTopics }

\* Bodies of POST /practice with 23 of 160, 14.375 per cent, and with a
\* negative score.
OddScoreBodies ==
  { [topicId |-> t, score |-> 23, total |-> 160] : t \in PracticeTopics }
    \cup { [topicId |-> t, score |-> 0 - 1, total |-> 10000] : t \in PracticeTopics }

\* Bodies of POST /practice: score may be missing, total may be 0 or missing,
\* topicId may be '' or missing.
PracticeScoreBodies ==
  { [topicId |-> t, score |-> s, total |-> n] :
      t \in PracticeTopics, s \in 0..MaxScoreInput, n \in 0..MaxScoreInput }
    \cup { [topicId |-> t, total |-> 1] : t \in PracticeTopics }
    \cup { [score |-> 1, total |-> 1], [topicId |-> "", score |-> 1, total |-> 1] }

\* x === undefined for a field x of a body: ~Has(body, "x").
Has(body, f) == f \in DOMAIN body

\* !x for a field x that holds a string: the field is missing or holds ''.
Blank(body, f) == ~Has(body, f) \/ body[f] = ""

-----------------------------------------------------------------------------
(* Scoring arithmetic *)

\* answers.filter(a => a.selectedOption === a.correctOption).length
CorrectCount(answers) ==
  Cardinality({ i \in 1..Len(answers) :
                  answers[i].selectedOption = answers[i].correctOption })

Abs(x) == IF x < 0 THEN 0 - x ELSE x

RECURSIVE Pow2(_)
Pow2(k) == IF k = 0 THEN 1 ELSE 2 * Pow2(k - 1)

\* a * 2^k modulo m
RECURSIVE ShiftMod(_, _, _)
ShiftMod(a, k, m) == IF k = 0 THEN a % m ELSE (2 * ShiftMod(a, k - 1, m)) % m

\* The exponent e of the quotient a/b of two positive integers:
\* 2^e <= a/b < 2^(e+1).
RECURSIVE ExponentFrom(_, _, _)
ExponentFrom(a, b, e) ==
  IF a >= b
  THEN IF b * Pow2(e + 1) <= a THEN ExponentFrom(a, b, e + 1) ELSE e
  ELSE IF a * Pow2(0 - e) < b THEN ExponentFrom(a, b, e - 1) ELSE e
Exponent(a, b) == ExponentFrom(a, b, IF a >= b THEN 0 ELSE 0 - 1)

\* c * a/b >= 2^ex, for a double that lies next to c * a/b and is off it by
\* an error of the sign of err.
AtLeastPow2(c, a, b, ex, err) ==
  LET lhs == IF ex >= 0 THEN c * a ELSE c * a * Pow2(0 - ex)
      rhs == IF ex >= 0 THEN b * Pow2(ex) ELSE b
  IN IF lhs # rhs THEN lhs > rhs ELSE err >= 0

\* Rounding an integer of which the last bits are low = value mod 2^(j+1) to
\* a multiple of 2^j, half way to the even multiple: what is added to it.
RoundOffBits(low, j) ==
  LET rem == low % Pow2(j)
      odd == low \div Pow2(j) = 1
      up == 2 * rem > Pow2(j) \/ (2 * rem = Pow2(j) /\ odd)
  IN IF up THEN Pow2(j) - rem ELSE 0 - rem

\* The error of the double ((a / b) * 100) * 100 against 10000 * a / b, for
\* positive integers a <= 100000 and b <= 65535, as the numerator of a
\* fraction with the positive denominator b * 2^(52 - Exponent(a, b)). Each of
\* the three operations gives the double of 53 significant bits nearest to its
\* exact result, a result half way between two doubles going to the one whose
\* last bit is 0. The quotient is q1 / 2^k1 and the products are q2 * 2^j2 / 2^k1
\* and q3 * 2^(j2 + j3) / 2^k1 for integers q1, q2, q3 of 53 bits, of which
\* the last 13 and 8 bits of q1 and q2 decide the roundings.
TimesHundredTwiceError(a, b) ==
  LET e == Exponent(a, b)
      k1 == 52 - e
      x == ShiftMod(a, k1, b * Pow2(13))
      r == x % b
      up1 == 2 * r > b \/ (2 * r = b /\ (x \div b) % 2 = 1)
      d1 == IF up1 THEN b - r ELSE 0 - r
      q1 == ((x \div b) + (IF up1 THEN 1 ELSE 0)) % Pow2(13)
      j2 == IF AtLeastPow2(100, a, b, e + 7, d1) THEN 7 ELSE 6
      p2 == (100 * q1) % Pow2(j2 + 8)
      rho2 == RoundOffBits(p2 % Pow2(j2 + 1), j2)
      q2 == ((p2 + rho2) \div Pow2(j2)) % Pow2(8)
      j3 == IF AtLeastPow2(10000, a, b, e + j2 + 7, 100 * d1 + rho2 * b) THEN 7 ELSE 6
      rho3 == RoundOffBits((100 * q2) % Pow2(j3 + 1), j3)
  IN 10000 * d1 + b * (100 * rho2 + Pow2(j2) * rho3)

\* Math.round((score / total) * 100 * 100) / 100, in hundredths, for integers
\* score and total of at most 100000 and 65535 in size: Math.round is
\* floor(x + 0.5) of the double x that the division and the two
\* multiplications leave, which is off 10000 * score / total by less than
\* 2^(-20) / total; so it is the floor of the exact value plus a half, but one
\* less where the exact value plus a half is an integer and x lies below it.
\* score / 0 is NaN for score 0 and an infinity otherwise.
Percentage(score, total) ==
  IF total = 0
  THEN (IF score = 0 THEN NaN ELSE IF score > 0 THEN Infinity ELSE NegInfinity)
  ELSE IF score = 0 THEN 0
  ELSE LET sign == IF (score > 0) = (total > 0) THEN 1 ELSE 0 - 1
           a == Abs(score)
           b == Abs(total)
           num == sign * 20000 * a + b
           below == num % (2 * b) = 0 /\ sign * TimesHundredTwiceError(a, b) < 0
       IN (num \div (2 * b)) - (IF below THEN 1 ELSE 0)

\* a >= b and a > b on numbers: every comparison with NaN is false.
JsGe(a, b) == a # NaN /\ b # NaN /\ a >= b
JsGt(a, b) == a # NaN /\ b # NaN /\ a > b

\* percentage >= 80
PassMark == 8000
Passed(percentage) == JsGe(percentage, PassMark)

\* parseFloat of a NUMERIC(5,2) value: the same number of hundredths.
parseFloat(numeric) == numeric

-----------------------------------------------------------------------------
(* Store *)

Pairs == Students \X Topics

\* The row of a key of a table, and the table with the row of a key written.
Get(table, key) == IF key \in DOMAIN table THEN table[key] ELSE NoRow
Put(table, key, row) ==
  [k \in (DOMAIN table) \cup {key} |-> IF k = key THEN row ELSE table[k]]

\* topic_id UUID NOT NULL REFERENCES topics(id): no row of topics has the id.
ForeignKeyViolated(topicId) == Get(topics, topicId) = NoRow

\* id UUID PRIMARY KEY DEFAULT gen_random_uuid() of a table that is kept by
\* id: an id that was never handed out. The ids of a table are its letter
\* and the number of the insert.
FreshKey(table, letter) == letter \o ToString(Cardinality(DOMAIN table) + 1)

AttemptsOf(s, t) ==
  { row \in practice_attempts : row.student_id = s /\ row.topic_id = t }

\* .order('attempt_number', { ascending: false }).limit(1).maybeSingle()
LastAttemptNumber(s, t) ==
  IF AttemptsOf(s, t) = {} THEN 0
  ELSE CHOOSE n \in { row.attempt_number : row \in AttemptsOf(s, t) } :
         \A row \in AttemptsOf(s, t) : row.attempt_number <= n

\* UNIQUE (student_id, topic_id, attempt_number)
NoUniqueAttemptNumber(row) == FALSE
UniqueAttemptNumberViolated(row) ==
  \E old \in practice_attempts :
    /\ old.student_id = row.student_id
    /\ old.topic_id = row.topic_id
    /\ old.attempt_number = row.attempt_number

\* percentage NUMERIC(5,2) NOT NULL: NaN is sent as JSON null, and a value of
\* 1000 or more does not fit the column.
NumericRejected(percentage) ==
  percentage = NaN \/ percentage >= 100000 \/ percentage <= 0 - 100000

\* .eq('student_id', s).eq('topic_id', t).maybeSingle() on coding_submissions
SubmissionsOf(s, t) ==
  { row \in coding_submissions : row.student_id = s /\ row.topic_id = t }

SubmissionOfTopic(s, t) ==
  IF \E row \in coding_submissions : row.topic_id = t
  THEN CHOOSE row \in coding_submissions : row.topic_id = t
  ELSE NoRow
SubmissionOf(s, t) ==
  IF SubmissionsOf(s, t) = {} THEN NoRow ELSE CHOOSE row \in SubmissionsOf(s, t) : TRUE

\* id UUID PRIMARY KEY DEFAULT gen_random_uuid(): an id no row of the table has.
FreshId(rows) ==
  CHOOSE id \in 1..(Cardinality(rows) + 1) : \A row \in rows : row.id # id

\* .upsert(values, { onConflict: 'student_id,topic_id' }) on coding_submissions:
\* one statement; the row of the pair is updated in place, or a row is inserted.
InsertSubmission(rows, s, t, values) ==
  rows \cup { [id |-> FreshId(rows), student_id |-> s, topic_id |-> t,
               passed |-> values.passed, code |-> values.code,
               output |-> values.output, language |-> values.language] }
UpsertWithoutConflict(rows, s, t, values) == InsertSubmission(rows, s, t, values)
UpsertOnTopic(rows, s, t, values) ==
  IF \E old \in rows : old.topic_id = t
  THEN { IF old.topic_id = t
         THEN [id |-> old.id, student_id |-> s, topic_id |-> t,
               passed |-> values.passed, code |-> values.code,
               output |-> values.output, language |-> values.language]
         ELSE old : old \in rows }
  ELSE InsertSubmission(rows, s, t, values)
UpsertIgnoreDuplicates(rows, s, t, values) ==
  IF \E old \in rows : old.student_id = s /\ old.topic_id = t
  THEN rows
  ELSE InsertSubmission(rows, s, t, values)
UpsertSubmission(rows, s, t, values) ==
  IF \E old \in rows : old.student_id = s /\ old.topic_id = t
  THEN { IF old.student_id = s /\ old.topic_id = t
         THEN [id |-> old.id, student_id |-> s, topic_id |-> t,
               passed |-> values.passed, code |-> values.code,
               output |-> values.output, language |-> values.language]
         ELSE old : old \in rows }
  ELSE InsertSubmission(rows, s, t, values)

-----------------------------------------------------------------------------
(* Requests *)

InFlight == { r \in ReqIds : pc[r] \notin {"idle", "done"} }

\* Request ids are handed out in order.
NextId(r) == pc[r] = "idle" /\ \A q \in ReqIds : q < r => pc[q] # "idle"

Respond(r, response) ==
  /\ pc' = [pc EXCEPT ![r] = "done"]
  /\ res' = [res EXCEPT ![r] = response]
  /\ loc' = [loc EXCEPT ![r] = NoLoc]

\* One course that holds every topic.
Courses == { "c1" }
InitContent ==
  /\ courses = [c \in Courses |-> [name |-> <<"Basics">>]]
  /\ topics = [t \in Topics |-> [course_id |-> "c1"]]

\* The request bookkeeping and the score tables as the migrations create them.
InitTables ==
  /\ practice_attempts = {}
  /\ practice_scores = [p \in Pairs |-> NoRow]
  /\ coding_submissions = {}
  /\ InitContent
  /\ pc = [r \in ReqIds |-> "idle"]
  /\ call = [r \in ReqIds |-> NoCall]
  /\ loc = [r \in ReqIds |-> NoLoc]
  /\ res = [r \in ReqIds |-> NoRes]
  /\ storeCalls = [r \in ReqIds |-> 0]
  /\ execLog = [r \in ReqIds |-> <<>>]
  /\ socket = [r \in ReqIds |-> "open"]

\* No topic has a coding practice.
Init ==
  /\ InitTables
  /\ coding_practices = [t \in Topics |-> NoRow]

-----------------------------------------------------------------------------
(* submitPracticeAttempt: POST /api/scores/practice-attempt *)

\* Entry up to the first await: validation and the score of the answers.
PracticeAttemptInvoke(r, s, body) ==
  /\ NextId(r)
  /\ UNCHANGED judgeVars
  /\ call' = [call EXCEPT ![r] =
                [op |-> "submitPracticeAttempt", student |-> s, body |-> body]]
  /\ IF Blank(body, "topicId") \/ ~Has(body, "answers")
     THEN /\ Respond(r, [status |-> 400])
          /\ UNCHANGED <<practice_attempts, practice_scores, storeCalls>>
     ELSE LET total == Len(body.answers)
              correctCount == CorrectCount(body.answers)
              percentage == Percentage(correctCount, total)
          IN /\ loc' = [loc EXCEPT ![r] =
                          [total |-> total, correctCount |-> correctCount,
                           percentage |-> percentage, passed |-> Passed(percentage)]]
             /\ pc' = [pc EXCEPT ![r] = "readLast"]
             /\ UNCHANGED <<practice_attempts, practice_scores, res, storeCalls>>

\* "Get next attempt number": the newest attempt of the pair is read.
PracticeAttemptReadLast(r) ==
  /\ pc[r] = "readLast"
  /\ UNCHANGED judgeVars
  /\ LET s == call[r].student
         t == call[r].body.topicId
     IN loc' = [loc EXCEPT ![r] =
                  [total |-> loc[r].total, correctCount |-> loc[r].correctCount,
                   percentage |-> loc[r].percentage, passed |-> loc[r].passed,
                   attemptNumber |-> LastAttemptNumber(s, t) + 1]]
  /\ pc' = [pc EXCEPT ![r] = "insert"]
  /\ storeCalls' = [storeCalls EXCEPT ![r] = @ + 1]
  /\ UNCHANGED <<practice_attempts, practice_scores, call, res>>

\* "Insert attempt": rejected by the table's constraints, or stored.
PracticeAttemptInsert(r) ==
  /\ pc[r] = "insert"
  /\ UNCHANGED judgeVars
  /\ storeCalls' = [storeCalls EXCEPT ![r] = @ + 1]
  /\ LET row == [id |-> r,
                 student_id |-> call[r].student,
                 topic_id |-> call[r].body.topicId,
                 attempt_number |-> loc[r].attemptNumber,
                 score |-> loc[r].correctCount,
                 total |-> loc[r].total,
                 percentage |-> loc[r].percentage,
                 passed |-> loc[r].passed,
                 answers |-> call[r].body.answers]
     IN IF \/ ForeignKeyViolated(row.topic_id)
           \/ UniqueAttemptNumberViolated(row)
           \/ NumericRejected(row.percentage)
        THEN /\ Respond(r, [status |-> 500])
             /\ UNCHANGED <<practice_attempts, practice_scores, call>>
        ELSE /\ practice_attempts' = practice_attempts \cup {row}
             /\ pc' = [pc EXCEPT ![r] = "readBest"]
             /\ UNCHANGED <<practice_scores, call, loc, res>>

\* The response of a stored attempt, from data, the row as the insert
\* returned it: the values the handler sent.
AttemptResponse(r) ==
  [status |-> 200, attemptNumber |-> loc[r].attemptNumber, score |-> loc[r].correctCount,
   total |-> loc[r].total, percentage |-> parseFloat(loc[r].percentage),
   passed |-> loc[r].passed]

\* if (!currentBest || percentage > parseFloat(currentBest.percentage))
BlindOverwrite(percentage, currentBest) == TRUE
BeatsBest(percentage, currentBest) ==
  currentBest = NoRow \/ JsGt(percentage, parseFloat(currentBest.percentage))

\* "Update practice_scores with best score": the current best is read.
PracticeAttemptReadBest(r) ==
  /\ pc[r] = "readBest"
  /\ UNCHANGED judgeVars
  /\ storeCalls' = [storeCalls EXCEPT ![r] = @ + 1]
  /\ LET currentBest == Get(practice_scores, <<call[r].student, call[r].body.topicId>>)
     IN IF BeatsBest(loc[r].percentage, currentBest)
        THEN /\ pc' = [pc EXCEPT ![r] = "upsertBest"]
             /\ UNCHANGED <<loc, res>>
        ELSE Respond(r, AttemptResponse(r))
  /\ UNCHANGED <<practice_attempts, practice_scores, call>>

\* The upsert of the pair's practice_scores row, then the response. The
\* result of the upsert is not read: when the topic is gone nothing is
\* written and the response is the same.
PracticeAttemptUpsertBest(r) ==
  /\ pc[r] = "upsertBest"
  /\ UNCHANGED judgeVars
  /\ storeCalls' = [storeCalls EXCEPT ![r] = @ + 1]
  /\ practice_scores' =
       IF ForeignKeyViolated(call[r].body.topicId) THEN practice_scores
       ELSE Put(practice_scores, <<call[r].student, call[r].body.topicId>>,
                [score |-> loc[r].correctCount, total |-> loc[r].total,
                 percentage |-> loc[r].percentage])
  /\ Respond(r, AttemptResponse(r))
  /\ UNCHANGED <<practice_attempts, call>>

-----------------------------------------------------------------------------
(* submitPracticeAttempt when a store call fails: the client returns        *)
(* { data: null, error } instead of throwing                                *)

\* if (lastErr) throw lastErr: the catch answers 500.
PracticeAttemptReadLastFails(r) ==
  /\ pc[r] = "readLast"
  /\ UNCHANGED judgeVars
  /\ storeCalls' = [storeCalls EXCEPT ![r] = @ + 1]
  /\ Respond(r, [status |-> 500])
  /\ UNCHANGED <<practice_attempts, practice_scores, call>>

\* if (error) throw error: nothing was stored, the catch answers 500.
PracticeAttemptInsertFails(r) ==
  /\ pc[r] = "insert"
  /\ UNCHANGED judgeVars
  /\ storeCalls' = [storeCalls EXCEPT ![r] = @ + 1]
  /\ Respond(r, [status |-> 500])
  /\ UNCHANGED <<practice_attempts, practice_scores, call>>

\* const { data: currentBest } = ...: the error is not read, currentBest is
\* null and !currentBest sends the handler to the upsert.
PracticeAttemptReadBestFails(r) ==
  /\ pc[r] = "readBest"
  /\ UNCHANGED judgeVars
  /\ storeCalls' = [storeCalls EXCEPT ![r] = @ + 1]
  /\ pc' = [pc EXCEPT ![r] = "upsertBest"]
  /\ UNCHANGED <<practice_attempts, practice_scores, call, loc, res>>

\* await supabase...upsert(...): the result is not read; the response follows.
PracticeAttemptUpsertBestFails(r) ==
  /\ pc[r] = "upsertBest"
  /\ UNCHANGED judgeVars
  /\ storeCalls' = [storeCalls EXCEPT ![r] = @ + 1]
  /\ Respond(r, AttemptResponse(r))
  /\ UNCHANGED <<practice_attempts, practice_scores, call>>

-----------------------------------------------------------------------------
(* submitPracticeScore: POST /api/scores/practice *)

\* Entry up to the upsert: validation and the percentage of score / total.
PracticeScoreInvoke(r, s, body) ==
  /\ NextId(r)
  /\ UNCHANGED judgeVars
  /\ call' = [call EXCEPT ![r] =
                [op |-> "submitPracticeScore", student |-> s, body |-> body]]
  /\ IF Blank(body, "topicId") \/ ~Has(body, "score") \/ ~Has(body, "total")
        \/ body.total = 0
     THEN /\ Respond(r, [status |-> 400])
          /\ UNCHANGED <<practice_attempts, practice_scores, storeCalls>>
     ELSE /\ loc' = [loc EXCEPT ![r] =
                       [percentage |-> Percentage(body.score, body.total)]]
          /\ pc' = [pc EXCEPT ![r] = "upsertScore"]
          /\ UNCHANGED <<practice_attempts, practice_scores, res, storeCalls>>

\* The upsert on (student_id, topic_id), whatever the row holds.
PracticeScoreUpsert(r) ==
  /\ pc[r] = "upsertScore"
  /\ UNCHANGED judgeVars
  /\ storeCalls' = [storeCalls EXCEPT ![r] = @ + 1]
  /\ LET body == call[r].body
         row == [score |-> body.score, total |-> body.total,
                 percentage |-> loc[r].percentage]
     IN IF ForeignKeyViolated(body.topicId) \/ NumericRejected(row.percentage)
        THEN /\ Respond(r, [status |-> 500])
             /\ UNCHANGED practice_scores
        ELSE /\ practice_scores' = Put(practice_scores, <<call[r].student, body.topicId>>, row)
             /\ Respond(r, [status |-> 200, score |-> row.score, total |-> row.total,
                            percentage |-> row.percentage])
  /\ UNCHANGED <<practice_attempts, call>>

-----------------------------------------------------------------------------
(* Text *)

\* A string is a sequence of chunks. A chunk is one whitespace character or a
\* run of text that neither starts nor ends with whitespace, so that trimming
\* and joining act on whole chunks.
\*
\* The characters String.prototype.trim strips: the white space and the line
\* terminators of the language. Here they are the space, the tab, the line
\* feed, the form feed, the carriage return, and then, written as they are,
\* the vertical tab U+000B, the no-break space U+00A0, the ogham space mark
\* U+1680 and the byte order mark U+FEFF. The other ones (U+2000 to U+200A,
\* U+2028, U+2029, U+202F, U+205F, U+3000) cannot be written in a string of
\* a module and no text of the model holds them.
Whitespace == { " ", "\t", "\n", "\f", "\r", "", " ", " ", "﻿" }

\* a || b on strings: the empty string is falsy.
Or(a, b) == IF a # <<>> THEN a ELSE b

\* String.prototype.trim
RECURSIVE TrimStart(_)
TrimStart(t) ==
  IF t # <<>> /\ Head(t) \in Whitespace THEN TrimStart(Tail(t)) ELSE t

RECURSIVE TrimEnd(_)
TrimEnd(t) ==
  IF t # <<>> /\ t[Len(t)] \in Whitespace THEN TrimEnd(SubSeq(t, 1, Len(t) - 1)) ELSE t

Trim(t) == TrimEnd(TrimStart(t))

\* Array.prototype.join
RECURSIVE Join(_, _)
Join(texts, sep) ==
  IF texts = <<>> THEN <<>>
  ELSE IF Len(texts) = 1 THEN texts[1]
  ELSE texts[1] \o sep \o Join(Tail(texts), sep)

-----------------------------------------------------------------------------
(* Challenge Specification Store: rows of coding_practices *)

\* Server-executed, two test cases.
PythonCases ==
  [language |-> "python", test_script |-> <<>>, expected_output |-> <<>>,
   test_cases |-> << [input |-> <<"3", "\n", "4">>, expectedOutput |-> <<"7">>],
                     [input |-> <<>>, expectedOutput |-> <<"\t", "8", "\r", "\n">>] >>]

\* Server-executed, one test case that expects the text of the error stream.
PythonErrorCase ==
  [language |-> "python", test_script |-> <<>>, expected_output |-> <<>>,
   test_cases |-> << [input |-> <<>>, expectedOutput |-> <<"Traceback">>] >>]

\* Server-executed, no test case: the single expected_output is compared.
PythonFallback ==
  [language |-> "python", test_script |-> <<>>, expected_output |-> <<"7", "\n">>,
   test_cases |-> <<>>]

\* Server-executed in a language whose name Object.prototype carries.
ConstructorFallback ==
  [language |-> "constructor", test_script |-> <<>>,
   expected_output |-> <<"Execution service unavailable">>, test_cases |-> <<>>]

\* Server-executed in a language the execution service is not configured for.
PerlFallback ==
  [language |-> "perl", test_script |-> <<>>,
   expected_output |-> <<"Unsupported language:", " ", "perl">>, test_cases |-> <<>>]

\* Web, validated by a test script run in the learner's browser.
WebScripted ==
  [language |-> "javascript", test_script |-> <<"assert">>, expected_output |-> <<>>,
   test_cases |-> <<>>]

\* Web, the test script blank.
WebVisual ==
  [language |-> "html", test_script |-> <<" ", "\t">>, expected_output |-> <<>>,
   test_cases |-> <<>>]

\* Web, no test script at all.
WebNoScript ==
  [language |-> "css", test_script |-> <<>>, expected_output |-> <<>>,
   test_cases |-> <<>>]

ChallengeSpecs ==
  { PythonCases, PythonErrorCase, PythonFallback, PerlFallback, ConstructorFallback,
    WebScripted, WebVisual, WebNoScript }

\* Topic t1 has a coding practice, topic t2 has none.
InitJudge ==
  /\ InitTables
  /\ \E cp \in ChallengeSpecs :
       coding_practices = [t \in Topics |-> IF t = "t1" THEN cp ELSE NoRow]

-----------------------------------------------------------------------------
(* executePiston *)

\* Keys of PISTON_LANGUAGES.
PISTON_LANGUAGES ==
  { "python", "java", "cpp", "c", "typescript", "php", "ruby", "go", "rust",
    "kotlin", "swift" }

\* The names every object literal inherits from Object.prototype.
ObjectPrototype ==
  { "constructor", "hasOwnProperty", "isPrototypeOf", "propertyIsEnumerable",
    "toLocaleString", "toString", "valueOf", "__proto__", "__defineGetter__",
    "__defineSetter__", "__lookupGetter__", "__lookupSetter__" }

\* const config = PISTON_LANGUAGES[language]; if (!config) ...: the lookup
\* finds the entry of a key, and the inherited member, a function or an
\* object, of a name of Object.prototype: config is truthy for both. For an
\* inherited member config.lang and config.version are undefined and the
\* request is sent without them.
HasConfig(language) == language \in PISTON_LANGUAGES \cup ObjectPrototype

\* What ends one call of the execution service. executePiston awaits twice:
\* the fetch, which ends when the status line and the headers of the response
\* are there, and response.json(), which ends when the body is. The fetch
\* throws (unreachable) or brings a non-2xx status; the reading of the body
\* throws (the connection ends before the body does) or brings a body without
\* run or a body with run.
PistonReplies ==
  { [kind |-> "throw", at |-> "fetch", message |-> <<"fetch failed">>],
    [kind |-> "throw", at |-> "json", message |-> <<"terminated">>],
    [kind |-> "status", ok |-> FALSE],
    [kind |-> "json", ok |-> TRUE, hasRun |-> FALSE] }
  \cup
  { [kind |-> "json", ok |-> TRUE, hasRun |-> TRUE, run |-> run] :
      run \in { [output |-> <<"7", "\n">>, stdout |-> <<"7", "\n">>, stderr |-> <<>>],
                [output |-> <<>>, stdout |-> <<"7">>, stderr |-> <<>>],
                [output |-> <<"8">>, stdout |-> <<>>, stderr |-> <<"8">>],
                [output |-> <<>>, stdout |-> <<>>, stderr |-> <<"Traceback">>],
                [output |-> <<>>, stdout |-> <<>>, stderr |-> <<>>] } }

\* One call executePiston(code, language, stdin) and what it returned.
LogEntry(stdin, result) ==
  [stdin |-> stdin, success |-> result.success, output |-> result.output]

\* if (!config) return { success: false, output: `Unsupported language: ...` }
UnsupportedLanguage(language) ==
  [success |-> FALSE, output |-> <<"Unsupported language:", " ", language>>]

\* The result of executePiston for a configured language, from the reply.
PistonResult(reply) ==
  IF reply.kind = "throw"
  THEN [success |-> FALSE, output |-> <<"Execution error:", " ">> \o reply.message]
  ELSE IF ~reply.ok
  THEN [success |-> FALSE, output |-> <<"Execution service unavailable">>]
  ELSE IF reply.hasRun
  THEN LET output == Or(Or(reply.run.output, reply.run.stdout), <<>>)
           error == Or(reply.run.stderr, <<>>)
       IN IF error # <<>> /\ output = <<>>
          THEN [success |-> FALSE, output |-> error]
          ELSE [success |-> TRUE, output |-> Or(Or(output, error), <<>>)]
  ELSE [success |-> FALSE, output |-> <<"No output received">>]

-----------------------------------------------------------------------------
(* submitCodingChallenge: POST /api/scores/coding-submit *)

\* Bodies of POST /coding-submit: every field may be missing; topicId, code
\* and language may be ''.
CodingChallengeBodies ==
  { [topicId |-> t, code |-> <<"print(a+b)">>] : t \in Topics }
  \cup
  { [topicId |-> "t1", code |-> <<"pass">>, language |-> "ruby"],
    [topicId |-> "t1", code |-> <<"pass">>, language |-> ""],
    [topicId |-> "t1", code |-> <<>>],
    [topicId |-> "t1"],
    [topicId |-> "", code |-> <<"pass">>],
    [code |-> <<"pass">>] }
  \cup
  { [topicId |-> "t1", code |-> <<"pass">>, testResults |-> tr] :
      tr \in { <<>>, << <<"PASS">>, <<"PASS">> >>, << <<"PASS">>, <<"FAIL:", " ", "x">> >> } }

IsWeb(cp) == cp.language \in { "html", "css", "javascript" }

\* The web branch: the verdict from the test script and the client's results.
WebVerdictNoElseIf(cp, body) ==
  LET scripted == cp.test_script # <<>> /\ Trim(cp.test_script) # <<>>
      received == Has(body, "testResults") /\ Len(body.testResults) > 0
  IN IF scripted /\ received
     THEN LET totalTests == Len(body.testResults)
              passedTests == Cardinality({ i \in 1..totalTests :
                                             body.testResults[i] = <<"PASS">> })
          IN [passed |-> totalTests > 0 /\ passedTests = totalTests,
              actualOutput |-> Join(body.testResults, <<"\n">>),
              results |-> << [total |-> totalTests, passed |-> passedTests] >>]
     ELSE [passed |-> TRUE,
           actualOutput |-> <<"Completed">>,
           results |-> << [total |-> 0, passed |-> 0, visual |-> TRUE] >>]
WebVerdictNoTrim(cp, body) ==
  LET scripted == cp.test_script # <<>>
      received == Has(body, "testResults") /\ Len(body.testResults) > 0
  IN IF scripted /\ received
     THEN LET totalTests == Len(body.testResults)
              passedTests == Cardinality({ i \in 1..totalTests :
                                             body.testResults[i] = <<"PASS">> })
          IN [passed |-> totalTests > 0 /\ passedTests = totalTests,
              actualOutput |-> Join(body.testResults, <<"\n">>),
              results |-> << [total |-> totalTests, passed |-> passedTests] >>]
     ELSE IF scripted
     THEN [passed |-> FALSE,
           actualOutput |-> <<"Test", " ", "results", " ", "not", " ", "received">>,
           results |-> << [total |-> 1, passed |-> 0] >>]
     ELSE [passed |-> TRUE,
           actualOutput |-> <<"Completed">>,
           results |-> << [total |-> 0, passed |-> 0, visual |-> TRUE] >>]
WebVerdict(cp, body) ==
  LET scripted == cp.test_script # <<>> /\ Trim(cp.test_script) # <<>>
      received == Has(body, "testResults") /\ Len(body.testResults) > 0
  IN IF scripted /\ received
     THEN LET totalTests == Len(body.testResults)
              passedTests == Cardinality({ i \in 1..totalTests :
                                             body.testResults[i] = <<"PASS">> })
          IN [passed |-> totalTests > 0 /\ passedTests = totalTests,
              actualOutput |-> Join(body.testResults, <<"\n">>),
              results |-> << [total |-> totalTests, passed |-> passedTests] >>]
     ELSE IF scripted
     THEN [passed |-> FALSE,
           actualOutput |-> <<"Test", " ", "results", " ", "not", " ", "received">>,
           results |-> << [total |-> 1, passed |-> 0] >>]
     ELSE [passed |-> TRUE,
           actualOutput |-> <<"Completed">>,
           results |-> << [total |-> 0, passed |-> 0, visual |-> TRUE] >>]

\* One pass of the test-case loop: the result of test case tc.
CaseResult(tc, result) ==
  LET expected == Trim(Or(tc.expectedOutput, <<>>))
      actual == Trim(Or(result.output, <<>>))
  IN [input |-> Or(tc.input, <<>>), expected |-> expected, actual |-> actual,
      passed |-> actual = expected]

\* The fallback comparison against cp.expected_output.
FallbackResult(cp, result) ==
  LET actualOutput == Trim(Or(result.output, <<>>))
      expected == Trim(Or(cp.expected_output, <<>>))
  IN [expected |-> expected, actual |-> actualOutput,
      passed |-> actualOutput = expected]

RECURSIVE Actuals(_)
Actuals(results) ==
  IF results = <<>> THEN <<>> ELSE <<Head(results).actual>> \o Actuals(Tail(results))

\* After the loop: passed when every result passed, output the joined actuals.
CasesVerdictAny(results) ==
  [passed |-> \E i \in 1..Len(results) : results[i].passed,
   actualOutput |-> Join(Actuals(results), <<"\n", "---", "\n">>),
   results |-> results]
CasesVerdict(results) ==
  [passed |-> Cardinality({ i \in 1..Len(results) : results[i].passed }) = Len(results),
   actualOutput |-> Join(Actuals(results), <<"\n", "---", "\n">>),
   results |-> results]

FallbackVerdict(cp, result) ==
  LET one == FallbackResult(cp, result)
  IN [passed |-> one.passed, actualOutput |-> one.actual, results |-> <<one>>]

\* The results of every test case from index i on, all with the same result.
RECURSIVE AllCases(_, _, _)
AllCases(testCases, i, result) ==
  IF i > Len(testCases) THEN <<>>
  ELSE <<CaseResult(testCases[i], result)>> \o AllCases(testCases, i + 1, result)

\* if (!topicId || !code): a missing field, or the empty string as topicId
\* or as code.
MissingTopicOrField(body) == Blank(body, "topicId") \/ ~Has(body, "code")
MissingTopicOrCode(body) ==
  Blank(body, "topicId") \/ ~Has(body, "code") \/ body.code = <<>>

\* Entry up to the first await: validation.
CodingChallengeInvoke(r, s, body) ==
  /\ NextId(r)
  /\ UNCHANGED <<practiceVars, coding_submissions, contentVars, execLog, socket>>
  /\ call' = [call EXCEPT ![r] =
                [op |-> "submitCodingChallenge", student |-> s, body |-> body]]
  /\ IF MissingTopicOrCode(body)
     THEN /\ Respond(r, [status |-> 400])
          /\ UNCHANGED storeCalls
     ELSE /\ pc' = [pc EXCEPT ![r] = "readPractice"]
          /\ UNCHANGED <<loc, res, storeCalls>>

\* "Fetch coding practice from DB", then the code up to the next await: the
\* whole web branch, or the server branch up to its first fetch. With a
\* language for which executePiston finds no config it returns without a
\* fetch, and the handler runs on to the upsert.
CodingChallengeReadPractice(r) ==
  /\ pc[r] = "readPractice"
  /\ UNCHANGED <<practiceVars, coding_submissions, contentVars, socket, call>>
  /\ storeCalls' = [storeCalls EXCEPT ![r] = @ + 1]
  /\ LET cp == Get(coding_practices, call[r].body.topicId)
     IN IF cp = NoRow
        THEN /\ Respond(r, [status |-> 404])
             /\ UNCHANGED execLog
        ELSE IF IsWeb(cp)
        THEN /\ loc' = [loc EXCEPT ![r] = [cp |-> cp, verdict |-> WebVerdict(cp, call[r].body)]]
             /\ pc' = [pc EXCEPT ![r] = "upsertSubmission"]
             /\ UNCHANGED <<res, execLog>>
        ELSE LET testCases == Or(cp.test_cases, <<>>)
             IN IF ~HasConfig(cp.language)
                THEN LET result == UnsupportedLanguage(cp.language)
                     IN /\ loc' = [loc EXCEPT ![r] =
                             [cp |-> cp,
                              verdict |-> IF Len(testCases) > 0
                                          THEN CasesVerdict(AllCases(testCases, 1, result))
                                          ELSE FallbackVerdict(cp, result)]]
                        /\ execLog' = [execLog EXCEPT ![r] =
                             IF Len(testCases) > 0
                             THEN [i \in 1..Len(testCases) |->
                                     LogEntry(Or(testCases[i].input, <<>>), result)]
                             ELSE << LogEntry(<<>>, result) >>]
                        /\ pc' = [pc EXCEPT ![r] = "upsertSubmission"]
                        /\ UNCHANGED res
                ELSE /\ loc' = [loc EXCEPT ![r] = [cp |-> cp, results |-> <<>>]]
                     /\ pc' = [pc EXCEPT ![r] = "fetch"]
                     /\ UNCHANGED <<res, execLog>>

\* const response = await fetch(...) ends with a 2xx status: response.ok is
\* true and executePiston goes on to await response.json().
CodingChallengePistonHeaders(r) ==
  /\ pc[r] = "fetch"
  /\ pc' = [pc EXCEPT ![r] = "json"]
  /\ UNCHANGED <<practiceVars, judgeVars, call, loc, res, storeCalls>>

\* The await of request r that reply ends.
Ends(r, reply) ==
  IF reply.kind = "throw" THEN pc[r] = reply.at
  ELSE IF reply.kind = "status" THEN pc[r] = "fetch"
  ELSE pc[r] = "json"

\* The execution service ends the pending await of executePiston, which
\* returns: the case is judged, and the handler fetches for the next case or
\* goes on to the upsert.
CodingChallengePistonReplyAborts(r, reply) ==
  /\ Ends(r, reply)
  /\ UNCHANGED <<practiceVars, coding_submissions, contentVars, socket, call,
                 storeCalls>>
  /\ LET cp == loc[r].cp
         testCases == Or(cp.test_cases, <<>>)
         result == PistonResult(reply)
         stdin == IF Len(testCases) > 0
                  THEN Or(testCases[Len(loc[r].results) + 1].input, <<>>)
                  ELSE <<>>
         results == Append(loc[r].results,
                           CaseResult(testCases[Len(loc[r].results) + 1], result))
     IN /\ execLog' = [execLog EXCEPT ![r] = Append(@, LogEntry(stdin, result))]
        /\ IF ~result.success
           THEN Respond(r, [status |-> 500])
           ELSE /\ UNCHANGED res
                /\ IF Len(testCases) = 0
                   THEN /\ loc' = [loc EXCEPT ![r] =
                                     [cp |-> cp, verdict |-> FallbackVerdict(cp, result)]]
                        /\ pc' = [pc EXCEPT ![r] = "upsertSubmission"]
                   ELSE IF Len(results) < Len(testCases)
                   THEN /\ loc' = [loc EXCEPT ![r] = [cp |-> cp, results |-> results]]
                        /\ pc' = [pc EXCEPT ![r] = "fetch"]
                   ELSE /\ loc' = [loc EXCEPT ![r] =
                                     [cp |-> cp, verdict |-> CasesVerdict(results)]]
                        /\ pc' = [pc EXCEPT ![r] = "upsertSubmission"]
CodingChallengePistonReply(r, reply) ==
  /\ Ends(r, reply)
  /\ UNCHANGED <<practiceVars, coding_submissions, contentVars, socket, call,
                 res, storeCalls>>
  /\ LET cp == loc[r].cp
         testCases == Or(cp.test_cases, <<>>)
         result == PistonResult(reply)
         stdin == IF Len(testCases) > 0
                  THEN Or(testCases[Len(loc[r].results) + 1].input, <<>>)
                  ELSE <<>>
     IN /\ execLog' = [execLog EXCEPT ![r] = Append(@, LogEntry(stdin, result))]
        /\ IF Len(testCases) > 0
           THEN LET results == Append(loc[r].results,
                                      CaseResult(testCases[Len(loc[r].results) + 1], result))
                IN IF Len(results) < Len(testCases)
                   THEN /\ loc' = [loc EXCEPT ![r] = [cp |-> cp, results |-> results]]
                        /\ pc' = [pc EXCEPT ![r] = "fetch"]
                   ELSE /\ loc' = [loc EXCEPT ![r] =
                                     [cp |-> cp, verdict |-> CasesVerdict(results)]]
                        /\ pc' = [pc EXCEPT ![r] = "upsertSubmission"]
           ELSE /\ loc' = [loc EXCEPT ![r] =
                             [cp |-> cp, verdict |-> FallbackVerdict(cp, result)]]
                /\ pc' = [pc EXCEPT ![r] = "upsertSubmission"]

\* "Save submission": the upsert on (student_id, topic_id), then the response.
CodingChallengeUpsert(r) ==
  /\ pc[r] = "upsertSubmission"
  /\ UNCHANGED <<practiceVars, contentVars, execLog, socket, call>>
  /\ storeCalls' = [storeCalls EXCEPT ![r] = @ + 1]
  /\ LET body == call[r].body
         verdict == loc[r].verdict
         values == [passed |-> verdict.passed,
                    code |-> body.code,
                    output |-> verdict.actualOutput,
                    language |-> IF Blank(body, "language") THEN loc[r].cp.language
                                 ELSE body.language]
         rows == UpsertSubmission(coding_submissions, call[r].student, body.topicId, values)
         data == CHOOSE row \in rows :
                   row.student_id = call[r].student /\ row.topic_id = body.topicId
     IN IF ForeignKeyViolated(body.topicId)
        THEN /\ Respond(r, [status |-> 500])
             /\ UNCHANGED coding_submissions
        ELSE /\ coding_submissions' = rows
             /\ Respond(r, [status |-> 200, id |-> data.id, passed |-> data.passed,
                            language |-> data.language, results |-> verdict.results])

-----------------------------------------------------------------------------
(* getCodingSubmission: GET /api/scores/coding-submission/:topicId *)

\* Entry up to the await: the topic is a route parameter, always there.
GetSubmissionInvoke(r, s, topicId) ==
  /\ NextId(r)
  /\ call' = [call EXCEPT ![r] =
                [op |-> "getCodingSubmission", student |-> s,
                 params |-> [topicId |-> topicId]]]
  /\ pc' = [pc EXCEPT ![r] = "readSubmission"]
  /\ UNCHANGED <<practiceVars, judgeVars, loc, res, storeCalls>>

\* The select by (student_id, topic_id), then the response: submission is
\* null (NoRow) when no row matched, the row's fields otherwise.
GetSubmissionRead(r) ==
  /\ pc[r] = "readSubmission"
  /\ storeCalls' = [storeCalls EXCEPT ![r] = @ + 1]
  /\ LET data == SubmissionOf(call[r].student, call[r].params.topicId)
     IN IF data = NoRow
        THEN Respond(r, [status |-> 200, submission |-> NoRow])
        ELSE Respond(r, [status |-> 200,
                         submission |-> [id |-> data.id, topicId |-> data.topic_id,
                                         passed |-> data.passed, code |-> data.code,
                                         output |-> data.output,
                                         language |-> data.language]])
  /\ UNCHANGED <<practiceVars, judgeVars, call>>

-----------------------------------------------------------------------------
(* View leaderboard *)

\* ROUND(x) of a NUMERIC held in hundredths: the nearest integer, halves away
\* from zero.
RoundNumeric(h) ==
  IF h >= 0 THEN (h + 50) \div 100 ELSE 0 - ((50 - h) \div 100)

\* Rows of public.students: every student a score table has an entry for.
StudentsTable ==
  { p[1] : p \in DOMAIN practice_scores } \cup { row.student_id : row \in coding_submissions }

\* SUM(percentage) ... GROUP BY student_id over the topics T.
RECURSIVE SumPercentage(_, _)
SumPercentage(s, T) ==
  IF T = {} THEN 0
  ELSE LET t == CHOOSE x \in T : TRUE
           row == Get(practice_scores, <<s, t>>)
       IN (IF row = NoRow THEN 0 ELSE row.percentage) + SumPercentage(s, T \ {t})

\* The topics practice_scores has an entry for.
ScoredTopics == { p[2] : p \in DOMAIN practice_scores }

\* COALESCE(p.practice_points, 0), the rows of s being on topics of T.
PracticePoints(s, T) == RoundNumeric(SumPercentage(s, T))

\* COALESCE(COUNT(*) FILTER (WHERE passed = true) * 100, 0)
CodingPointsAllRows(s) ==
  100 * Cardinality({ row \in coding_submissions : row.student_id = s })
CodingPoints(s) ==
  100 * Cardinality({ row \in coding_submissions : row.student_id = s /\ row.passed })

\* The rows of the view: one per student whose total is positive.
LeaderboardViewAll ==
  LET T == ScoredTopics
  IN { [student_id |-> s, practice_points |-> PracticePoints(s, T),
        coding_points |-> CodingPoints(s),
        total_points |-> PracticePoints(s, T) + CodingPoints(s)] : s \in StudentsTable }
LeaderboardView ==
  LET T == ScoredTopics
  IN { [student_id |-> s, practice_points |-> PracticePoints(s, T),
        coding_points |-> CodingPoints(s),
        total_points |-> PracticePoints(s, T) + CodingPoints(s)] :
         s \in { x \in StudentsTable : PracticePoints(x, T) + CodingPoints(x) > 0 } }

\* Every order of the rows G.
Orders(G) ==
  { f \in [1..Cardinality(G) -> G] :
      \A i, j \in 1..Cardinality(G) : i # j => f[i] # f[j] }

\* .order('total_points', { ascending: false }): every order of the rows in
\* which no row comes before one with more points; rows with equal points come
\* in any order.
RECURSIVE RankingsAscending(_)
RankingsAscending(rows) ==
  IF rows = {} THEN { <<>> }
  ELSE LET m == CHOOSE x \in { row.total_points : row \in rows } :
                  \A row \in rows : row.total_points >= x
           G == { row \in rows : row.total_points = m }
       IN { first \o rest : first \in Orders(G), rest \in RankingsAscending(rows \ G) }
RECURSIVE Rankings(_)
Rankings(rows) ==
  IF rows = {} THEN { <<>> }
  ELSE LET m == CHOOSE x \in { row.total_points : row \in rows } :
                  \A row \in rows : row.total_points <= x
           G == { row \in rows : row.total_points = m }
       IN { first \o rest : first \in Orders(G), rest \in Rankings(rows \ G) }

\* .limit(50)
LeaderboardLimit == 50
Limit(ranking) ==
  SubSeq(ranking, 1, IF Len(ranking) < LeaderboardLimit THEN Len(ranking)
                     ELSE LeaderboardLimit)

\* .gt('total_points', points) with { count: 'exact', head: true }
CountLess(rows, points) ==
  Cardinality({ row \in rows : row.total_points < points })
CountGreaterOrEqual(rows, points) ==
  Cardinality({ row \in rows : row.total_points >= points })
CountGreater(rows, points) ==
  Cardinality({ row \in rows : row.total_points > points })

-----------------------------------------------------------------------------
(* getLeaderboard: GET /api/scores/leaderboard *)

\* myRank = null
null == 0

\* Entry up to the first await.
LeaderboardInvoke(r, s) ==
  /\ NextId(r)
  /\ call' = [call EXCEPT ![r] = [op |-> "getLeaderboard", student |-> s]]
  /\ pc' = [pc EXCEPT ![r] = "readTop"]
  /\ UNCHANGED <<practiceVars, judgeVars, loc, res, storeCalls>>

\* topScorers.map((row, index) => ...)
Entries(topScorers, studentId) ==
  [i \in 1..Len(topScorers) |->
     [rank |-> i,
      studentId |-> topScorers[i].student_id,
      practicePoints |-> topScorers[i].practice_points,
      codingPoints |-> topScorers[i].coding_points,
      totalPoints |-> topScorers[i].total_points,
      isCurrentUser |-> topScorers[i].student_id = studentId]]

\* "Get top 50 from view", the list, and the requester's rank when listed.
LeaderboardReadTop(r) ==
  /\ pc[r] = "readTop"
  /\ storeCalls' = [storeCalls EXCEPT ![r] = @ + 1]
  /\ \E ranking \in Rankings(LeaderboardView) :
       LET leaderboard == Entries(Limit(ranking), call[r].student)
           listed == { i \in 1..Len(leaderboard) : leaderboard[i].isCurrentUser }
       IN IF listed # {}
          THEN LET currentUserEntry ==
                     leaderboard[CHOOSE i \in listed : \A j \in listed : i <= j]
               IN Respond(r, [status |-> 200, leaderboard |-> leaderboard,
                              myRank |-> currentUserEntry.rank])
          ELSE /\ loc' = [loc EXCEPT ![r] = [leaderboard |-> leaderboard]]
               /\ pc' = [pc EXCEPT ![r] = "readMine"]
               /\ UNCHANGED res
  /\ UNCHANGED <<practiceVars, judgeVars, call>>

\* "Step 1: Get this student's total points".
LeaderboardReadMine(r) ==
  /\ pc[r] = "readMine"
  /\ storeCalls' = [storeCalls EXCEPT ![r] = @ + 1]
  /\ LET mine == { row \in LeaderboardView : row.student_id = call[r].student }
     IN IF mine = {}
        THEN Respond(r, [status |-> 200, leaderboard |-> loc[r].leaderboard,
                         myRank |-> null])
        ELSE /\ loc' = [loc EXCEPT ![r] =
                          [leaderboard |-> loc[r].leaderboard,
                           myEntry |-> [total_points |->
                                          (CHOOSE row \in mine : TRUE).total_points]]]
             /\ pc' = [pc EXCEPT ![r] = "countAbove"]
             /\ UNCHANGED res
  /\ UNCHANGED <<practiceVars, judgeVars, call>>

\* "Step 2: Count students with more points": myRank = (count || 0) + 1.
LeaderboardCountAbove(r) ==
  /\ pc[r] = "countAbove"
  /\ storeCalls' = [storeCalls EXCEPT ![r] = @ + 1]
  /\ LET count == CountGreater(LeaderboardView, loc[r].myEntry.total_points)
     IN Respond(r, [status |-> 200, leaderboard |-> loc[r].leaderboard,
                    myRank |-> count + 1])
  /\ UNCHANGED <<practiceVars, judgeVars, call>>

-----------------------------------------------------------------------------
(* Score tables for the leaderboard *)

\* Students that lead the board: member i has 100.00 and i.00 as best
\* percentages and both coding challenges passed, 300 + i points.
CrowdSize == 48
CrowdNames ==
  << "c01", "c02", "c03", "c04", "c05", "c06", "c07", "c08", "c09",
     "c10", "c11", "c12", "c13", "c14", "c15", "c16", "c17", "c18",
     "c19", "c20", "c21", "c22", "c23", "c24", "c25", "c26", "c27",
     "c28", "c29", "c30", "c31", "c32", "c33", "c34", "c35", "c36",
     "c37", "c38", "c39", "c40", "c41", "c42", "c43", "c44", "c45",
     "c46", "c47", "c48", "c49", "c50", "c51", "c52" >>
Crowd == { CrowdNames[i] : i \in 1..CrowdSize }
CrowdIndex(s) == CHOOSE i \in 1..CrowdSize : CrowdNames[i] = s

\* The students whose scores vary, and the scores one of them may have.
Contenders == Students \cup { "s3" }

BestScore(score, total) ==
  [score |-> score, total |-> total, percentage |-> Percentage(score, total)]

ScoreProfiles ==
  { [t1 |-> NoRow, t2 |-> NoRow, passed |-> {}, failed |-> {}],
    [t1 |-> BestScore(0, 1), t2 |-> NoRow, passed |-> {}, failed |-> {"t1"}],
    [t1 |-> BestScore(1, 1), t2 |-> NoRow, passed |-> {}, failed |-> {}],
    [t1 |-> NoRow, t2 |-> NoRow, passed |-> {"t1"}, failed |-> {"t2"}],
    [t1 |-> BestScore(2, 3), t2 |-> BestScore(2, 3), passed |-> {}, failed |-> {}],
    [t1 |-> BestScore(101, 200), t2 |-> NoRow, passed |-> {}, failed |-> {}],
    [t1 |-> BestScore(1, 1), t2 |-> BestScore(1, 100), passed |-> {"t1", "t2"},
     failed |-> {}] }

CrowdProfile(i) ==
  [t1 |-> BestScore(1, 1), t2 |-> BestScore(i, 100), passed |-> {"t1", "t2"},
   failed |-> {}]

\* The tables that hold the scores profile[s] of every student s.
ScoresOf(profile) ==
  [p \in (DOMAIN profile) \X Topics |->
     IF p[2] = "t1" THEN profile[p[1]].t1 ELSE profile[p[1]].t2]

\* Row ids: any ids that differ from row to row.
ContenderNames == << "s1", "s2", "s3" >>
StudentIndex(s) ==
  IF s \in Crowd THEN CrowdIndex(s)
  ELSE CrowdSize + (CHOOSE i \in 1..Len(ContenderNames) : ContenderNames[i] = s)

SubmissionsFrom(profile) ==
  { [id |-> 2 * StudentIndex(p[1]) - (IF p[2] = "t1" THEN 1 ELSE 0),
     student_id |-> p[1], topic_id |-> p[2],
     passed |-> p[2] \in profile[p[1]].passed,
     code |-> <<"pass">>, output |-> <<>>, language |-> "python"] :
      p \in { x \in (DOMAIN profile) \X Topics :
                x[2] \in profile[x[1]].passed \cup profile[x[1]].failed } }

\* The crowd and, for every contender, one of the score profiles.
InitLeaderboard ==
  /\ \E chosen \in [Contenders -> ScoreProfiles] :
       LET profile == [s \in Contenders \cup Crowd |->
                         IF s \in Contenders THEN chosen[s]
                         ELSE CrowdProfile(CrowdIndex(s))]
       IN /\ practice_scores = ScoresOf(profile)
          /\ coding_submissions = SubmissionsFrom(profile)
  /\ practice_attempts = {}
  /\ coding_practices = [t \in Topics |-> NoRow]
  /\ InitContent
  /\ pc = [r \in ReqIds |-> "idle"]
  /\ call = [r \in ReqIds |-> NoCall]
  /\ loc = [r \in ReqIds |-> NoLoc]
  /\ res = [r \in ReqIds |-> NoRes]
  /\ storeCalls = [r \in ReqIds |-> 0]
  /\ execLog = [r \in ReqIds |-> <<>>]
  /\ socket = [r \in ReqIds |-> "open"]

-----------------------------------------------------------------------------
(* Numbers of the language: IEEE 754 doubles *)

\* A double x that is near h hundredths is held as [h, d], the integers for
\* which x = h/100 + d/(100 * 2^60) exactly: d is what the conversions and the
\* additions that made x have rounded away.
\* 2^k modulo m
RECURSIVE Pow2Mod(_, _)
Pow2Mod(k, m) == IF k = 0 THEN 1 % m ELSE (2 * Pow2Mod(k - 1, m)) % m

\* The exponent e of the value h/100 + d/(100 * 2^60), for h > 0:
\* 2^e <= value < 2^(e+1). A value of a hundredth or more has an exponent of
\* -7 or more, and no h that is an integer of the checker one above
\* MaxBinade. The integers of the checker hold the arithmetic of the
\* rounding for the sums of some fifty percentages, values below 2^16 with a
\* d below 2^31 in size; the evaluation of a larger one fails with an
\* overflow and gives no value.
MaxBinade == 24
Binade(h, d) ==
  LET AtLeast(e) ==
        IF e >= 0
        THEN h > 100 * Pow2(e) \/ (h = 100 * Pow2(e) /\ d >= 0)
        ELSE h * Pow2(0 - e) > 100 \/ (h * Pow2(0 - e) = 100 /\ d >= 0)
  IN CHOOSE e \in (0 - 7)..MaxBinade :
       AtLeast(e) /\ (e < MaxBinade => ~AtLeast(e + 1))

\* The double nearest to h/100 + d/(100 * 2^60) for h > 0, of 53 significant
\* bits; a value half way between two doubles goes to the one whose last bit
\* is 0.
RoundPositive(h, d) ==
  LET e == Binade(h, d)
      ulp == 100 * Pow2(8 + e)
      below == Pow2(8 + e) * (((h % 100) * Pow2Mod(52 - e, 100)) % 100) + d
      rem == below % ulp
      odd == ((IF ((h % 200) * Pow2Mod(52 - e, 200)) % 200 >= 100
               THEN 1 ELSE 0) + ((below - rem) \div ulp)) % 2 = 1
      up == 2 * rem > ulp \/ (2 * rem = ulp /\ odd)
  IN [h |-> h, d |-> IF up THEN d - rem + ulp ELSE d - rem]

\* The double nearest to h/100 + d/(100 * 2^60). Rounding is the same on both
\* sides of zero. Every value here is a sum of doubles of a hundredth or more
\* in size, a multiple of 2^(-59): one below a hundredth in size (h = 0) is
\* a double as it stands.
RoundToDouble(h, d) ==
  IF h = 0 THEN [h |-> 0, d |-> d]
  ELSE IF h < 0
       THEN LET x == RoundPositive(0 - h, 0 - d) IN [h |-> 0 - x.h, d |-> 0 - x.d]
       ELSE RoundPositive(h, d)

\* parseFloat of a NUMERIC(5,2) value as the double it is.
parseFloatDouble(numeric) == RoundToDouble(numeric, 0)

\* x + y
DoubleAdd(x, y) == RoundToDouble(x.h + y.h, x.d + y.d)

\* Math.round(x): floor(x + 0.5)
MathRoundDouble(x) ==
  IF (x.h + 50) % 100 = 0 /\ x.d < 0 THEN ((x.h + 50) \div 100) - 1
  ELSE (x.h + 50) \div 100

-----------------------------------------------------------------------------
(* getMyProgress: GET /api/scores/my-progress *)

\* .order('updated_at', { ascending: false }): updated_at is the time of the
\* last write of a row, which the tables do not keep; the rows come in any
\* order.
OrderByUpdatedAt(rows) == Orders(rows)

\* Entry up to the Promise.all of the two reads.
ProgressInvoke(r, s) ==
  /\ NextId(r)
  /\ call' = [call EXCEPT ![r] = [op |-> "getMyProgress", student |-> s]]
  /\ pc' = [pc EXCEPT ![r] = "readProgress"]
  /\ loc' = [loc EXCEPT ![r] = [pending |-> {"practice_scores", "coding_submissions"}]]
  /\ UNCHANGED <<practiceVars, judgeVars, res, storeCalls>>

\* practiceScores.reduce((sum, p) => sum + p.percentage, 0), over the rows
\* first..last: the rows are added one by one in their order, the first half
\* of them before the second, and each sum is a value before the next row is
\* added to it.
RECURSIVE SumDoublesOver(_, _, _, _)
SumDoublesOver(sum, practiceScores, first, last) ==
  IF first > last THEN sum
  ELSE IF first = last
  THEN DoubleAdd(sum, parseFloatDouble(practiceScores[first].percentage))
  ELSE LET middle == (first + last) \div 2
           half == SumDoublesOver(sum, practiceScores, first, middle)
       IN IF half = sum THEN SumDoublesOver(sum, practiceScores, middle + 1, last)
          ELSE SumDoublesOver(half, practiceScores, middle + 1, last)
SumDoubles(sum, practiceScores) ==
  SumDoublesOver(sum, practiceScores, 1, Len(practiceScores))

\* The statements after the Promise.all.
ProgressResponse(practiceScores, codingSubmissions) ==
  LET practicePoints == SumDoubles([h |-> 0, d |-> 0], practiceScores)
      codingPoints ==
        100 * Cardinality({ i \in 1..Len(codingSubmissions) :
                              codingSubmissions[i].passed })
      topicsCompleted ==
        Cardinality({ practiceScores[i].topicId : i \in 1..Len(practiceScores) }
                    \cup { codingSubmissions[i].topicId :
                             i \in 1..Len(codingSubmissions) })
  IN [status |-> 200,
      practiceScores |-> practiceScores,
      codingSubmissions |-> codingSubmissions,
      stats |-> [totalPoints |-> MathRoundDouble(practicePoints) + codingPoints,
                 practicePoints |-> MathRoundDouble(practicePoints),
                 codingPoints |-> codingPoints,
                 topicsCompleted |-> topicsCompleted]]

\* One of the two reads has answered: the handler goes on when both have.
ProgressAnswered(r, table, data) ==
  LET here == [t \in (DOMAIN loc[r]) \cup {table} |->
                 IF t = table THEN data
                 ELSE IF t = "pending" THEN loc[r].pending \ {table}
                 ELSE loc[r][t]]
  IN /\ storeCalls' = [storeCalls EXCEPT ![r] = @ + 1]
     /\ IF here.pending = {}
        THEN Respond(r, ProgressResponse(here.practice_scores,
                                         here.coding_submissions))
        ELSE /\ loc' = [loc EXCEPT ![r] = here]
             /\ UNCHANGED <<pc, res>>

\* from('practice_scores').select('*').eq('student_id', studentId)
ProgressReadScores(r) ==
  /\ pc[r] = "readProgress"
  /\ "practice_scores" \in loc[r].pending
  /\ LET rows == { [topicId |-> p[2], score |-> practice_scores[p].score,
                    total |-> practice_scores[p].total,
                    percentage |-> practice_scores[p].percentage] :
                     p \in { x \in DOMAIN practice_scores :
                               x[1] = call[r].student /\ practice_scores[x] # NoRow } }
     IN \E data \in OrderByUpdatedAt(rows) :
          ProgressAnswered(r, "practice_scores", data)
  /\ UNCHANGED <<practiceVars, judgeVars, call>>

\* from('coding_submissions').select('*').eq('student_id', studentId)
ProgressReadSubmissions(r) ==
  /\ pc[r] = "readProgress"
  /\ "coding_submissions" \in loc[r].pending
  /\ LET rows == { [id |-> row.id, topicId |-> row.topic_id,
                    passed |-> row.passed, language |-> row.language] :
                     row \in { x \in coding_submissions :
                                 x.student_id = call[r].student } }
     IN \E data \in OrderByUpdatedAt(rows) :
          ProgressAnswered(r, "coding_submissions", data)
  /\ UNCHANGED <<practiceVars, judgeVars, call>>

-----------------------------------------------------------------------------
(* getPracticeAttemptDetail: GET /api/scores/practice-attempt/:attemptId *)

\* .eq('id', attemptId).eq('student_id', studentId)
AttemptByIdAnyOwner(attemptId, studentId) ==
  { row \in practice_attempts : row.id = attemptId }
AttemptById(attemptId, studentId) ==
  { row \in practice_attempts : row.id = attemptId /\ row.student_id = studentId }

\* Entry up to the await of the select.
AttemptDetailInvoke(r, s, attemptId) ==
  /\ NextId(r)
  /\ call' = [call EXCEPT ![r] = [op |-> "getPracticeAttemptDetail", student |-> s,
                                  params |-> [attemptId |-> attemptId]]]
  /\ pc' = [pc EXCEPT ![r] = "readAttempt"]
  /\ UNCHANGED <<practiceVars, judgeVars, loc, res, storeCalls>>

\* The select with maybeSingle() and the response.
AttemptDetailRead(r) ==
  /\ pc[r] = "readAttempt"
  /\ storeCalls' = [storeCalls EXCEPT ![r] = @ + 1]
  /\ LET found == AttemptById(call[r].params.attemptId, call[r].student)
     IN IF found = {}
        THEN Respond(r, [status |-> 404, message |-> "Attempt not found"])
        ELSE LET data == CHOOSE row \in found : TRUE
             IN Respond(r, [status |-> 200, id |-> data.id,
                            attemptNumber |-> data.attempt_number,
                            score |-> data.score, total |-> data.total,
                            percentage |-> parseFloat(data.percentage),
                            passed |-> data.passed, answers |-> data.answers])
  /\ UNCHANGED <<practiceVars, judgeVars, call>>

-----------------------------------------------------------------------------
(* submitCodingScore: POST /api/scores/coding *)

\* Bodies of POST /coding: topicId or passed may be missing; code, output and
\* language are optional; topicId and language may be ''.
CodingScoreBodies ==
  { [topicId |-> t, passed |-> b] : t \in Topics, b \in BOOLEAN }
  \cup
  { [topicId |-> "t1", passed |-> TRUE, code |-> <<"pass">>, output |-> <<"7">>,
     language |-> "python"],
    [topicId |-> "t1", passed |-> TRUE, language |-> ""],
    [topicId |-> "t1"],
    [topicId |-> "", passed |-> TRUE],
    [passed |-> TRUE] }

\* Entry up to the await: if (!topicId || passed === undefined)
CodingScoreInvoke(r, s, body) ==
  /\ NextId(r)
  /\ call' = [call EXCEPT ![r] =
                [op |-> "submitCodingScore", student |-> s, body |-> body]]
  /\ IF Blank(body, "topicId") \/ ~Has(body, "passed")
     THEN Respond(r, [status |-> 400])
     ELSE /\ pc' = [pc EXCEPT ![r] = "upsertCodingScore"]
          /\ UNCHANGED <<loc, res>>
  /\ UNCHANGED <<practiceVars, judgeVars, storeCalls>>

\* The upsert on (student_id, topic_id) of what the body holds, then the
\* response.
CodingScoreUpsert(r) ==
  /\ pc[r] = "upsertCodingScore"
  /\ storeCalls' = [storeCalls EXCEPT ![r] = @ + 1]
  /\ LET body == call[r].body
         values == [passed |-> body.passed,
                    code |-> IF Has(body, "code") THEN body.code ELSE <<>>,
                    output |-> IF Has(body, "output") THEN body.output ELSE <<>>,
                    language |-> IF Blank(body, "language") THEN "javascript"
                                 ELSE body.language]
         rows == UpsertSubmission(coding_submissions, call[r].student, body.topicId, values)
         data == CHOOSE row \in rows :
                   row.student_id = call[r].student /\ row.topic_id = body.topicId
     IN IF ForeignKeyViolated(body.topicId)
        THEN /\ Respond(r, [status |-> 500])
             /\ UNCHANGED coding_submissions
        ELSE /\ coding_submissions' = rows
             /\ Respond(r, [status |-> 200, id |-> data.id, studentId |-> data.student_id,
                            topicId |-> data.topic_id, passed |-> data.passed,
                            language |-> data.language])
  /\ UNCHANGED <<practiceVars, contentVars, execLog, socket, call>>

-----------------------------------------------------------------------------
(* getPracticeAttempts: GET /api/scores/practice-attempts/:topicId *)

\* Entry up to the await of the select.
GetAttemptsInvoke(r, s, topicId) ==
  /\ NextId(r)
  /\ call' = [call EXCEPT ![r] = [op |-> "getPracticeAttempts", student |-> s,
                                  params |-> [topicId |-> topicId]]]
  /\ pc' = [pc EXCEPT ![r] = "readAttempts"]
  /\ UNCHANGED <<practiceVars, judgeVars, loc, res, storeCalls>>

\* attempts.reduce((max, a) => a.percentage > max ? a.percentage : max, 0)
RECURSIVE BestOf(_, _)
BestOf(max, attempts) ==
  IF attempts = <<>> THEN max
  ELSE BestOf(IF JsGt(Head(attempts).percentage, max)
              THEN Head(attempts).percentage ELSE max, Tail(attempts))

\* The select of the pair's attempts without their answers, newest first, and
\* the response.
GetAttemptsRead(r) ==
  /\ pc[r] = "readAttempts"
  /\ storeCalls' = [storeCalls EXCEPT ![r] = @ + 1]
  /\ LET rows == AttemptsOf(call[r].student, call[r].params.topicId)
         data == CHOOSE f \in Orders(rows) :
                   \A i, j \in 1..Len(f) :
                     i < j => f[i].attempt_number > f[j].attempt_number
         attempts == [i \in 1..Len(data) |->
                        [id |-> data[i].id, attemptNumber |-> data[i].attempt_number,
                         score |-> data[i].score, total |-> data[i].total,
                         percentage |-> parseFloat(data[i].percentage),
                         passed |-> data[i].passed]]
     IN Respond(r, [status |-> 200, attempts |-> attempts,
                    bestPercentage |-> BestOf(0, attempts)])
  /\ UNCHANGED <<practiceVars, judgeVars, call>>

-----------------------------------------------------------------------------
(* Course content: createTopic, updateTopic and deleteTopic of the topic    *)
(* controller, createCourse, updateCourse and deleteCourse of the course    *)
(* controller. They are the requests of an administrator and carry no       *)
(* student. reorderTopics and reorderCourses write sort_order alone, a      *)
(* column that no table of the model holds.                                  *)

\* codingPractice of a body: with a title and what makes a challenge with one
\* expected output, with a title alone, and with an empty title.
SumPractice ==
  [title |-> <<"Sum">>, language |-> "python", expectedOutput |-> <<"7", "\n">>]
PagePractice == [title |-> <<"Page">>]
UntitledPractice == [title |-> <<>>]

\* Bodies of POST /api/courses: name may be missing.
CreateCourseBodies ==
  { [name |-> <<"Python">>], [description |-> <<"Unnamed">>] }

\* Bodies of PUT /api/courses/:id: name may be missing.
UpdateCourseBodies ==
  { [name |-> <<"Django">>], [description |-> <<"Renamed">>] }

\* Bodies of POST /api/topics: order and codingPractice may be missing; the
\* course is the one there is or the first one created.
CreateTopicBodies ==
  { [courseId |-> "c1", title |-> <<"Loops">>, order |-> 1],
    [courseId |-> "c1", title |-> <<"Loops">>, codingPractice |-> SumPractice],
    [courseId |-> "c2", title |-> <<"Loops">>, codingPractice |-> SumPractice] }

\* Bodies of PUT /api/topics/:id: codingPractice may be missing.
UpdateTopicBodies ==
  { [title |-> <<"Loops">>],
    [title |-> <<"Loops">>, codingPractice |-> SumPractice],
    [title |-> <<"Loops">>, codingPractice |-> PagePractice],
    [title |-> <<"Loops">>, codingPractice |-> UntitledPractice] }

\* codingPractice?.title
HasTitle(body) ==
  /\ Has(body, "codingPractice")
  /\ Has(body.codingPractice, "title")
  /\ body.codingPractice.title # <<>>

\* The row of coding_practices that the two inserts send: language ||
\* 'javascript', expectedOutput || '', testScript || '', testCases || [].
PracticeRow(codingPractice) ==
  [language |-> IF Blank(codingPractice, "language") THEN "javascript"
                ELSE codingPractice.language,
   test_script |-> IF Has(codingPractice, "testScript")
                   THEN codingPractice.testScript ELSE <<>>,
   expected_output |-> IF Has(codingPractice, "expectedOutput")
                       THEN codingPractice.expectedOutput ELSE <<>>,
   test_cases |-> IF Has(codingPractice, "testCases")
                  THEN codingPractice.testCases ELSE <<>>]

\* await supabase.from('coding_practices').insert(...), the result not read:
\* topic_id UUID NOT NULL UNIQUE REFERENCES topics(id). Without the topic, or
\* with a row of the topic there, nothing is written.
InsertCodingPractice(topicId, codingPractice) ==
  IF ForeignKeyViolated(topicId) \/ Get(coding_practices, topicId) # NoRow
  THEN coding_practices
  ELSE Put(coding_practices, topicId, PracticeRow(codingPractice))

\* The rows of topics T leave topics and, by ON DELETE CASCADE of topic_id,
\* coding_practices, practice_scores, coding_submissions and practice_attempts.
DeleteTopics(T) ==
  /\ topics' = [t \in DOMAIN topics |-> IF t \in T THEN NoRow ELSE topics[t]]
  /\ coding_practices' =
       [t \in DOMAIN coding_practices |-> IF t \in T THEN NoRow ELSE coding_practices[t]]
  /\ practice_scores' =
       [p \in DOMAIN practice_scores |-> IF p[2] \in T THEN NoRow ELSE practice_scores[p]]
  /\ coding_submissions' = { row \in coding_submissions : row.topic_id \notin T }
  /\ practice_attempts' = { row \in practice_attempts : row.topic_id \notin T }

\* createTopic, entry up to the first await: the read of the course's last
\* sort_order when the body has no order, the insert otherwise.
CreateTopicInvoke(r, body) ==
  /\ NextId(r)
  /\ call' = [call EXCEPT ![r] = [op |-> "createTopic", body |-> body]]
  /\ pc' = [pc EXCEPT ![r] = IF Has(body, "order") THEN "insertTopic" ELSE "readOrder"]
  /\ UNCHANGED <<practiceVars, judgeVars, loc, res, storeCalls>>

\* "Get next order if not provided": sort_order is a column no branch reads.
CreateTopicReadOrder(r) ==
  /\ pc[r] = "readOrder"
  /\ pc' = [pc EXCEPT ![r] = "insertTopic"]
  /\ storeCalls' = [storeCalls EXCEPT ![r] = @ + 1]
  /\ UNCHANGED <<practiceVars, judgeVars, call, loc, res>>

\* "Insert topic": course_id UUID NOT NULL REFERENCES courses(id), title TEXT
\* NOT NULL, id DEFAULT gen_random_uuid(), an id that was never handed out.
\* Then the response, or the insert of the coding practice when it has a
\* title.
CreateTopicInsert(r) ==
  /\ pc[r] = "insertTopic"
  /\ storeCalls' = [storeCalls EXCEPT ![r] = @ + 1]
  /\ UNCHANGED <<practiceVars, coding_submissions, coding_practices, courses,
                 execLog, socket, call>>
  /\ LET body == call[r].body
         id == FreshKey(topics, "t")
     IN IF ~Has(body, "courseId") \/ ~Has(body, "title")
           \/ Get(courses, body.courseId) = NoRow
        THEN /\ Respond(r, [status |-> 500])
             /\ UNCHANGED topics
        ELSE /\ topics' = Put(topics, id, [course_id |-> body.courseId])
             /\ IF HasTitle(body)
                THEN /\ loc' = [loc EXCEPT ![r] = [topic |-> [id |-> id]]]
                     /\ pc' = [pc EXCEPT ![r] = "insertPracticeOfNew"]
                     /\ UNCHANGED res
                ELSE Respond(r, [status |-> 201, id |-> id])

\* "Insert coding practice" of the new topic, then the response.
CreateTopicInsertPractice(r) ==
  /\ pc[r] = "insertPracticeOfNew"
  /\ storeCalls' = [storeCalls EXCEPT ![r] = @ + 1]
  /\ coding_practices' = InsertCodingPractice(loc[r].topic.id, call[r].body.codingPractice)
  /\ Respond(r, [status |-> 201, id |-> loc[r].topic.id])
  /\ UNCHANGED <<practiceVars, coding_submissions, topics, courses, execLog, socket, call>>

\* updateTopic, entry up to the first await.
UpdateTopicInvoke(r, id, body) ==
  /\ NextId(r)
  /\ call' = [call EXCEPT ![r] = [op |-> "updateTopic", params |-> [id |-> id],
                                  body |-> body]]
  /\ pc' = [pc EXCEPT ![r] = "updateTopic"]
  /\ UNCHANGED <<practiceVars, judgeVars, loc, res, storeCalls>>

\* The update of the topic's row with .single(): without the row the client
\* returns an error, which is thrown. The columns written are ones no branch
\* reads. Then the response, or the replacement of the coding practice when
\* the body has one (codingPractice !== undefined).
UpdateTopicUpdate(r) ==
  /\ pc[r] = "updateTopic"
  /\ storeCalls' = [storeCalls EXCEPT ![r] = @ + 1]
  /\ UNCHANGED <<practiceVars, judgeVars, call, loc>>
  /\ IF Get(topics, call[r].params.id) = NoRow
     THEN Respond(r, [status |-> 500])
     ELSE IF Has(call[r].body, "codingPractice")
     THEN /\ pc' = [pc EXCEPT ![r] = "deletePractice"]
          /\ UNCHANGED res
     ELSE Respond(r, [status |-> 200, id |-> call[r].params.id])

\* "Replace coding practice": the delete, the result not read. Then the
\* response, or the insert when the coding practice has a title.
UpdateTopicDeletePractice(r) ==
  /\ pc[r] = "deletePractice"
  /\ storeCalls' = [storeCalls EXCEPT ![r] = @ + 1]
  /\ coding_practices' =
       [t \in DOMAIN coding_practices |->
          IF t = call[r].params.id THEN NoRow ELSE coding_practices[t]]
  /\ IF HasTitle(call[r].body)
     THEN /\ pc' = [pc EXCEPT ![r] = "insertPractice"]
          /\ UNCHANGED <<loc, res>>
     ELSE Respond(r, [status |-> 200, id |-> call[r].params.id])
  /\ UNCHANGED <<practiceVars, coding_submissions, topics, courses, execLog, socket, call>>

\* The insert of the replacement, the result not read, then the response.
UpdateTopicInsertPractice(r) ==
  /\ pc[r] = "insertPractice"
  /\ storeCalls' = [storeCalls EXCEPT ![r] = @ + 1]
  /\ coding_practices' = InsertCodingPractice(call[r].params.id, call[r].body.codingPractice)
  /\ Respond(r, [status |-> 200, id |-> call[r].params.id])
  /\ UNCHANGED <<practiceVars, coding_submissions, topics, courses, execLog, socket, call>>

\* deleteTopic, entry up to the await.
DeleteTopicInvoke(r, id) ==
  /\ NextId(r)
  /\ call' = [call EXCEPT ![r] = [op |-> "deleteTopic", params |-> [id |-> id]]]
  /\ pc' = [pc EXCEPT ![r] = "deleteTopic"]
  /\ UNCHANGED <<practiceVars, judgeVars, loc, res, storeCalls>>

\* The delete of the topic's row, with or without a row of the id, and the
\* response.
DeleteTopicDelete(r) ==
  /\ pc[r] = "deleteTopic"
  /\ storeCalls' = [storeCalls EXCEPT ![r] = @ + 1]
  /\ DeleteTopics({ call[r].params.id })
  /\ Respond(r, [status |-> 200])
  /\ UNCHANGED <<courses, execLog, socket, call>>

\* createCourse, entry up to the await.
CreateCourseInvoke(r, body) ==
  /\ NextId(r)
  /\ call' = [call EXCEPT ![r] = [op |-> "createCourse", body |-> body]]
  /\ pc' = [pc EXCEPT ![r] = "insertCourse"]
  /\ UNCHANGED <<practiceVars, judgeVars, loc, res, storeCalls>>

\* The insert into courses with .select().single(): name TEXT NOT NULL, id
\* DEFAULT gen_random_uuid(); the other columns are ones no branch reads.
\* Then the response.
CreateCourseInsert(r) ==
  /\ pc[r] = "insertCourse"
  /\ storeCalls' = [storeCalls EXCEPT ![r] = @ + 1]
  /\ LET body == call[r].body
         id == FreshKey(courses, "c")
     IN IF ~Has(body, "name")
        THEN /\ Respond(r, [status |-> 500])
             /\ UNCHANGED courses
        ELSE /\ courses' = Put(courses, id, [name |-> body.name])
             /\ Respond(r, [status |-> 201, id |-> id, name |-> body.name])
  /\ UNCHANGED <<practiceVars, coding_submissions, coding_practices, topics,
                 execLog, socket, call>>

\* updateCourse, entry up to the await.
UpdateCourseInvoke(r, id, body) ==
  /\ NextId(r)
  /\ call' = [call EXCEPT ![r] = [op |-> "updateCourse", params |-> [id |-> id],
                                  body |-> body]]
  /\ pc' = [pc EXCEPT ![r] = "updateCourse"]
  /\ UNCHANGED <<practiceVars, judgeVars, loc, res, storeCalls>>

\* The update of the course's row with .select().single(): without the row
\* the client returns an error, which is thrown. name is written when the
\* body has one (name !== undefined); the other columns written are ones no
\* branch reads. Then the response.
UpdateCourseUpdate(r) ==
  /\ pc[r] = "updateCourse"
  /\ storeCalls' = [storeCalls EXCEPT ![r] = @ + 1]
  /\ LET id == call[r].params.id
         body == call[r].body
         name == IF Has(body, "name") THEN body.name ELSE Get(courses, id).name
     IN IF Get(courses, id) = NoRow
        THEN /\ Respond(r, [status |-> 500])
             /\ UNCHANGED courses
        ELSE /\ courses' = Put(courses, id, [name |-> name])
             /\ Respond(r, [status |-> 200, id |-> id, name |-> name])
  /\ UNCHANGED <<practiceVars, coding_submissions, coding_practices, topics,
                 execLog, socket, call>>

\* deleteCourse, entry up to the await.
DeleteCourseInvoke(r, id) ==
  /\ NextId(r)
  /\ call' = [call EXCEPT ![r] = [op |-> "deleteCourse", params |-> [id |-> id]]]
  /\ pc' = [pc EXCEPT ![r] = "deleteCourse"]
  /\ UNCHANGED <<practiceVars, judgeVars, loc, res, storeCalls>>

\* The delete of the course's row and, by ON DELETE CASCADE of course_id, of
\* its topics, and the response.
DeleteCourseDelete(r) ==
  /\ pc[r] = "deleteCourse"
  /\ storeCalls' = [storeCalls EXCEPT ![r] = @ + 1]
  /\ courses' = [c \in DOMAIN courses |->
                   IF c = call[r].params.id THEN NoRow ELSE courses[c]]
  /\ DeleteTopics({ t \in DOMAIN topics :
                      topics[t] # NoRow /\ topics[t].course_id = call[r].params.id })
  /\ Respond(r, [status |-> 200])
  /\ UNCHANGED <<execLog, socket, call>>

\* The steps of the content requests that the server takes by itself.
ContentStep(r) ==
  \/ CreateTopicReadOrder(r)
  \/ CreateTopicInsert(r)
  \/ CreateTopicInsertPractice(r)
  \/ UpdateTopicUpdate(r)
  \/ UpdateTopicDeletePractice(r)
  \/ UpdateTopicInsertPractice(r)
  \/ DeleteTopicDelete(r)
  \/ CreateCourseInsert(r)
  \/ UpdateCourseUpdate(r)
  \/ DeleteCourseDelete(r)

-----------------------------------------------------------------------------
(* The end of a request *)

\* The response has been sent and the request is over: its slot is free for
\* the next request.
Release(r) ==
  /\ pc[r] = "done"
  /\ pc' = [pc EXCEPT ![r] = "idle"]
  /\ call' = [call EXCEPT ![r] = NoCall]
  /\ res' = [res EXCEPT ![r] = NoRes]
  /\ storeCalls' = [storeCalls EXCEPT ![r] = 0]
  /\ execLog' = [execLog EXCEPT ![r] = <<>>]
  /\ socket' = [socket EXCEPT ![r] = "open"]
  /\ UNCHANGED <<practiceVars, coding_submissions, contentVars, loc>>

\* The request timeout of the server: the idle connection of a request that
\* has not been answered is destroyed. The handler is not told.
RequestTimeout(r) ==
  /\ pc[r] \notin { "idle", "done" }
  /\ socket[r] = "open"
  /\ socket' = [socket EXCEPT ![r] = "destroyed"]
  /\ UNCHANGED <<practiceVars, coding_submissions, contentVars, pc, call, loc,
                 res, storeCalls, execLog>>

\* The fetch is called without a signal, and the timeouts that end its awaits
\* are those of the runtime: with no response headers for 300 s the await of
\* fetch rejects with TypeError 'fetch failed', with no body for 300 s the
\* await of response.json() rejects with 'terminated'. executePiston catches
\* both and returns. The timer is independent of the request timeout, which
\* counts the idle time of the request's connection: by then the connection
\* is destroyed, or open when the client has kept it busy, and the response
\* that follows is delivered.
CodingChallengeFetchTimeout(r) ==
  /\ pc[r] \in { "fetch", "json" }
  /\ \E reply \in { x \in PistonReplies : x.kind = "throw" } :
       CodingChallengePistonReply(r, reply)

-----------------------------------------------------------------------------
(* Specifications *)

PracticeAttemptStep(r) ==
  \/ PracticeAttemptReadLast(r)
  \/ PracticeAttemptInsert(r)
  \/ PracticeAttemptReadBest(r)
  \/ PracticeAttemptUpsertBest(r)

\* Practice attempts of any learner, up to MaxInFlight at a time.
NextAttempts ==
  \E r \in ReqIds :
    \/ /\ Cardinality(InFlight) < MaxInFlight
       /\ \E s \in Students, body \in PracticeAttemptBodies(MaxRaceAnswers) :
            PracticeAttemptInvoke(r, s, body)
    \/ PracticeAttemptStep(r)

SpecAttempts == Init /\ [][NextAttempts]_vars

\* Practice attempts made one at a time: a call starts when none is in flight.
NextSequential ==
  \E r \in ReqIds :
    \/ /\ InFlight = {}
       /\ \/ \E s \in Students, body \in PracticeAttemptBodies(MaxAnswers) :
               PracticeAttemptInvoke(r, s, body)
          \/ \E body \in LongAttemptBodies : PracticeAttemptInvoke(r, "s1", body)
    \/ PracticeAttemptStep(r)

SpecSequential == Init /\ [][NextSequential]_vars

\* Practice attempts made one at a time over a store whose calls may fail.
NextFaulty ==
  \E r \in ReqIds :
    \/ /\ InFlight = {}
       /\ \E s \in Students, body \in PracticeAttemptBodies(MaxRaceAnswers) :
            PracticeAttemptInvoke(r, s, body)
    \/ PracticeAttemptStep(r)
    \/ PracticeAttemptReadLastFails(r)
    \/ PracticeAttemptInsertFails(r)
    \/ PracticeAttemptReadBestFails(r)
    \/ PracticeAttemptUpsertBestFails(r)

SpecFaulty == Init /\ [][NextFaulty]_vars

\* Both practice endpoints, up to MaxInFlight requests at a time.
NextPractice ==
  \E r \in ReqIds :
    \/ /\ Cardinality(InFlight) < MaxInFlight
       /\ \E s \in Students :
            \/ \E body \in PracticeAttemptBodies(MaxRaceAnswers) :
                 PracticeAttemptInvoke(r, s, body)
            \/ \E body \in PracticeScoreBodies \cup OddScoreBodies :
                 PracticeScoreInvoke(r, s, body)
    \/ PracticeAttemptStep(r)
    \/ PracticeScoreUpsert(r)

SpecPractice == Init /\ [][NextPractice]_vars

\* The steps of the coding judge that the server takes by itself.
CodingChallengeStep(r) ==
  \/ CodingChallengeReadPractice(r)
  \/ CodingChallengeUpsert(r)
  \/ RequestTimeout(r)
  \/ CodingChallengeFetchTimeout(r)

\* Coding submissions of one learner, one after the other, any number of them.
NextJudge ==
  \E r \in ReqIds :
    \/ /\ \A q \in ReqIds : pc[q] = "idle"
       /\ \E body \in CodingChallengeBodies : CodingChallengeInvoke(r, "s1", body)
    \/ CodingChallengeStep(r)
    \/ \E reply \in PistonReplies : CodingChallengePistonReply(r, reply)
    \/ CodingChallengePistonHeaders(r)
    \/ Release(r)

SpecJudge == InitJudge /\ [][NextJudge]_vars

\* Server-executed challenges, one of them expecting the text that
\* executePiston returns when the fetch has failed.
FetchFailedFallback ==
  [language |-> "python", test_script |-> <<>>,
   expected_output |-> <<"Execution error:", " ", "fetch failed">>, test_cases |-> <<>>]

PendingSpecs == { PythonCases, PythonFallback, FetchFailedFallback }

InitPending ==
  /\ InitTables
  /\ \E cp \in PendingSpecs :
       coding_practices = [t \in Topics |-> IF t = "t1" THEN cp ELSE NoRow]

\* Submissions of one learner with code, one after the other, to which the
\* execution service answers with a failure, with an output, or not at all.
PendingBodies ==
  { body \in CodingChallengeBodies :
      ~MissingTopicOrCode(body) /\ DOMAIN body = { "topicId", "code" } }
PendingReplies ==
  { reply \in PistonReplies :
      reply.kind = "json" => (reply.hasRun /\ reply.run.output = <<"7", "\n">>) }
NextPending ==
  \E r \in ReqIds :
    \/ /\ \A q \in ReqIds : pc[q] = "idle"
       /\ \E body \in PendingBodies : CodingChallengeInvoke(r, "s1", body)
    \/ CodingChallengeStep(r)
    \/ \E reply \in PendingReplies : CodingChallengePistonReply(r, reply)
    \/ CodingChallengePistonHeaders(r)
    \/ Release(r)

SpecPending == InitPending /\ [][NextPending]_vars

\* The server takes each of its own steps when it can: the store answers and
\* the timers of the server and of its fetch fire. Nothing makes the
\* execution service answer.
FairSpecPending ==
  SpecPending /\ \A r \in ReqIds : WF_vars(CodingChallengeStep(r))

\* Bodies of POST /coding-submit and replies of the execution service for
\* the behaviours in which the requests of a behaviour are all kept.
SubmissionBodies ==
  { [topicId |-> "t1", code |-> <<"print(a+b)">>],
    [topicId |-> "t1", code |-> <<"pass">>, language |-> "ruby",
     testResults |-> << <<"PASS">>, <<"PASS">> >>],
    [topicId |-> "t1", code |-> <<>>],
    [topicId |-> "", code |-> <<"print(a+b)">>],
    [topicId |-> "t2", code |-> <<"print(a+b)">>] }

SubmissionReplies ==
  { reply \in PistonReplies :
      \/ reply.kind = "throw" /\ reply.at = "fetch"
      \/ reply.kind = "json" /\ reply.hasRun /\ reply.run.output # <<>> }

\* Submissions and reads of the stored submission by any learner, made one
\* at a time: a call starts when none is in flight.
NextRoundTrip ==
  \E r \in ReqIds :
    \/ /\ InFlight = {}
       /\ \E s \in Students :
            \/ \E body \in SubmissionBodies : CodingChallengeInvoke(r, s, body)
            \/ \E t \in Topics : GetSubmissionInvoke(r, s, t)
    \/ CodingChallengeReadPractice(r)
    \/ \E reply \in SubmissionReplies : CodingChallengePistonReply(r, reply)
    \/ CodingChallengePistonHeaders(r)
    \/ CodingChallengeUpsert(r)
    \/ GetSubmissionRead(r)

SpecRoundTrip == InitJudge /\ [][NextRoundTrip]_vars

\* Leaderboard requests of a contender or of the last of the crowd, one after
\* the other, over score tables that do not change.
NextLeaderboard ==
  \E r \in ReqIds :
    \/ /\ \A q \in ReqIds : pc[q] = "idle"
       /\ \E s \in Contenders \cup { CrowdNames[1] } : LeaderboardInvoke(r, s)
    \/ LeaderboardReadTop(r)
    \/ LeaderboardReadMine(r)
    \/ LeaderboardCountAbove(r)
    \/ Release(r)

SpecLeaderboard == InitLeaderboard /\ [][NextLeaderboard]_vars

-----------------------------------------------------------------------------
(* Practice attempt recorder: properties *)

IsAttempt(r) == call[r].op = "submitPracticeAttempt"

\* A practice attempt request with a topic and at least one answer.
IsScoredAttempt(r) ==
  /\ IsAttempt(r)
  /\ ~Blank(call[r].body, "topicId")
  /\ Has(call[r].body, "answers")
  /\ Len(call[r].body.answers) >= 1

SamePair(r1, r2) ==
  /\ call[r1].student = call[r2].student
  /\ call[r1].body.topicId = call[r2].body.topicId

PairInFlight(s, t) ==
  \E r \in InFlight :
    call[r].student = s /\ ~Blank(call[r].body, "topicId") /\ call[r].body.topicId = t

SetMax(S) == CHOOSE x \in S : \A y \in S : y <= x

\* C1: when two practice attempts of the same learner on the same topic have
\* both completed (and no other request of the pair is in flight), the pair's
\* best score is at least the percentage of each of them: no update is lost,
\* however the two calls interleaved.
C1_NoLostUpdate ==
  \A r1, r2 \in ReqIds :
    ( /\ r1 # r2
      /\ IsScoredAttempt(r1) /\ IsScoredAttempt(r2)
      /\ SamePair(r1, r2)
      /\ pc[r1] = "done" /\ res[r1].status = 200
      /\ pc[r2] = "done" /\ res[r2].status = 200
      /\ ~PairInFlight(call[r1].student, call[r1].body.topicId) )
    => LET best == practice_scores[<<call[r1].student, call[r1].body.topicId>>]
       IN /\ best # NoRow
          /\ best.percentage >= res[r1].percentage
          /\ best.percentage >= res[r2].percentage

\* C2: in every state the attempt numbers stored for a (learner, topic) pair
\* are exactly 1..M, M the number of attempts stored for the pair: no gap and
\* no duplicate, whether the calls ran one after the other or concurrently.
C2_AttemptNumbersGapFree ==
  \A p \in Pairs :
    { row.attempt_number : row \in AttemptsOf(p[1], p[2]) }
      = 1..Cardinality(AttemptsOf(p[1], p[2]))

\* C2 witness: a pair holds an attempt, and a concurrent call of the same pair
\* that had read the same last attempt number was refused its insert.
C2_Witness ==
  \E p \in Pairs :
    /\ Cardinality(AttemptsOf(p[1], p[2])) >= 1
    /\ \E r \in ReqIds :
         /\ IsScoredAttempt(r) /\ call[r].student = p[1] /\ call[r].body.topicId = p[2]
         /\ pc[r] = "done" /\ res[r].status = 500

\* C3: two practice attempts of the same learner on the same topic, each with
\* a topic and answers, both succeed and both are stored under distinct
\* attempt numbers: neither is rejected because they collided.
C3_BothConcurrentAttemptsSucceed ==
  \A r1, r2 \in ReqIds :
    ( /\ r1 # r2
      /\ IsScoredAttempt(r1) /\ IsScoredAttempt(r2)
      /\ SamePair(r1, r2)
      /\ pc[r1] = "done" /\ pc[r2] = "done" )
    => /\ res[r1].status = 200 /\ res[r2].status = 200
       /\ res[r1].attemptNumber # res[r2].attemptNumber
       /\ \E row1, row2 \in practice_attempts : row1.id = r1 /\ row2.id = r2

\* C4: with practice attempts made one at a time and nothing else writing the
\* best-score row, after every call the best score of a pair is the maximum
\* percentage over the attempts stored for the pair (and there is no best
\* score while there is no attempt).
C4_BestIsMaxOfAttempts ==
  InFlight = {} =>
    \A p \in Pairs :
      IF AttemptsOf(p[1], p[2]) = {}
      THEN practice_scores[p] = NoRow
      ELSE /\ practice_scores[p] # NoRow
           /\ practice_scores[p].percentage
                = SetMax({ row.percentage : row \in AttemptsOf(p[1], p[2]) })

\* C4 witness: two completed attempts of one pair, the later one with the
\* lower percentage, so that the best score is not the last attempt's.
C4_Witness ==
  /\ InFlight = {}
  /\ \E p \in Pairs :
       \E a1, a2 \in AttemptsOf(p[1], p[2]) :
         /\ a1.attempt_number = 1 /\ a2.attempt_number = 2
         /\ a2.percentage < a1.percentage
         /\ a2.percentage > 0

\* C5: the stored best percentage of a (learner, topic) pair never decreases:
\* no step of a practice attempt or of a direct practice score submission
\* replaces a best-score row by none or by one with a lower percentage.
C5_BestNeverDecreases ==
  [][ \A p \in Pairs :
        practice_scores[p] # NoRow =>
          /\ practice_scores'[p] # NoRow
          /\ practice_scores'[p].percentage >= practice_scores[p].percentage ]_vars

\* C6: a practice attempt with an empty answers sequence is rejected as a
\* validation error (status 400) before any store call, and stores no attempt.
C6_EmptyAnswersRejected ==
  \A r \in ReqIds :
    ( /\ IsAttempt(r)
      /\ ~Blank(call[r].body, "topicId")
      /\ Has(call[r].body, "answers")
      /\ call[r].body.answers = <<>> )
    => /\ storeCalls[r] = 0
       /\ pc[r] = "done" => res[r].status = 400
       /\ ~ \E row \in practice_attempts : row.id = r

\* p is k/n, n > 0, as a percentage rounded to two decimals (hundredths): the
\* hundredth nearest to 100 * k / n, and of two that are as near the upper
\* one.
IsRoundedPercentage(p, k, n) ==
  2 * n * p <= 20000 * k + n /\ 20000 * k + n < 2 * n * (p + 1)

\* C7: an attempt of N >= 1 answers, k of them with selectedOption equal to
\* correctOption, is stored with score k, total N, percentage round(k/N*100, 2)
\* and passed exactly when the percentage is at least 80.
C7_AttemptScoredFromAnswers ==
  /\ \A row \in practice_attempts :
       LET N == Len(row.answers)
           k == Cardinality({ i \in 1..N :
                  row.answers[i].selectedOption = row.answers[i].correctOption })
       IN /\ N >= 1
          /\ row.score = k
          /\ row.total = N
          /\ IsRoundedPercentage(row.percentage, k, N)
          /\ row.passed = (row.percentage >= 8000)
  /\ \A r \in ReqIds :
       (IsScoredAttempt(r) /\ pc[r] = "done") =>
         \E row \in practice_attempts :
           /\ row.id = r
           /\ row.answers = call[r].body.answers
           /\ row.student_id = call[r].student
           /\ row.topic_id = call[r].body.topicId

\* C8: in every state the percentage of every stored practice attempt and of
\* every stored best score is derived from the row's own score and total and
\* lies between 0 and 100.
C8_PercentageDerivedAndInRange ==
  /\ \A row \in practice_attempts :
       /\ row.total > 0
       /\ IsRoundedPercentage(row.percentage, row.score, row.total)
       /\ row.percentage >= 0 /\ row.percentage <= 10000
  /\ \A p \in Pairs :
       practice_scores[p] # NoRow =>
         /\ practice_scores[p].total > 0
         /\ IsRoundedPercentage(practice_scores[p].percentage,
                                practice_scores[p].score, practice_scores[p].total)
         /\ practice_scores[p].percentage >= 0
         /\ practice_scores[p].percentage <= 10000

\* C17: over a store whose calls may fail, a practice attempt that was
\* answered either succeeded (200), with the attempt stored and the pair's
\* best score at least the attempt's percentage, or failed (500) with no
\* attempt stored; it is never answered 200 with the attempt stored and the
\* best-score update it required missing.
C17_NoPartialWrite ==
  \A r \in ReqIds :
    (IsScoredAttempt(r) /\ pc[r] = "done") =>
      LET best == Get(practice_scores, <<call[r].student, call[r].body.topicId>>)
          stored == \E row \in practice_attempts : row.id = r
      IN /\ res[r].status \in { 200, 500 }
         /\ res[r].status = 500 => ~stored
         /\ res[r].status = 200 =>
              /\ stored
              /\ best # NoRow
              /\ best.percentage >= res[r].percentage

-----------------------------------------------------------------------------
(* Coding challenge judge: properties *)

IsJudge(r) == call[r].op = "submitCodingChallenge"

\* C9: when a server-executed submission has been judged, the request did not
\* fail (status 200), and every executePiston call that reported a failure
\* (success false) left its case failed with the failure text as the case's
\* actual, and the verdict returned and stored is passed = false, whatever
\* expected output the challenge stores.
C9_ExecutionFailureFailsCase ==
  \A r \in ReqIds :
    (IsJudge(r) /\ pc[r] = "done" /\ execLog[r] # <<>>) =>
      /\ res[r].status = 200
      /\ \A i \in 1..Len(execLog[r]) :
           ~execLog[r][i].success =>
             /\ res[r].results[i].actual = Trim(execLog[r][i].output)
             /\ ~res[r].results[i].passed
             /\ ~res[r].passed
             /\ ~SubmissionOf(call[r].student, call[r].body.topicId).passed

\* What executePiston returns for a call that a timeout ended.
TimedOut(entry) ==
  /\ ~entry.success
  /\ entry.output \in { <<"Execution error:", " ", "fetch failed">>,
                        <<"Execution error:", " ", "terminated">> }

\* C10: every call of the execution service is bounded by a timeout: a
\* judging request that waits for the execution service, for the response or
\* for its body, is eventually over, also when the service never replies;
\* and when it is over, every call that the timeout ended has left its case
\* recorded as failed with the timeout's text as the case's actual, in the
\* verdict returned and in the one stored.
C10_TimeoutFailsCase ==
  /\ \A r \in ReqIds : (pc[r] \in { "fetch", "json" }) ~> (pc[r] = "done")
  /\ [](\A r \in ReqIds :
          (IsJudge(r) /\ pc[r] = "done" /\ execLog[r] # <<>>) =>
            /\ res[r].status = 200
            /\ \A i \in 1..Len(execLog[r]) :
                 TimedOut(execLog[r][i]) =>
                   /\ res[r].results[i].actual = Trim(execLog[r][i].output)
                   /\ ~res[r].results[i].passed
                   /\ ~res[r].passed
                   /\ ~SubmissionOf(call[r].student, call[r].body.topicId).passed)

\* A judging request that was answered with a verdict.
Judged(r) == IsJudge(r) /\ pc[r] = "done" /\ res[r].status = 200

\* The challenge a request with a topic is judged against.
ChallengeOf(r) == Get(coding_practices, call[r].body.topicId)

\* C11: a judged submission to a server-executed challenge with n >= 1 test
\* cases was executed n times, the i-th time with the i-th case's input as
\* stdin, and passed exactly when every trimmed output equals the trimmed
\* expected output of its case; with no test case it was executed once with
\* empty stdin and passed exactly when the trimmed output equals the trimmed
\* expected_output of the challenge. The stored row holds that verdict.
C11_ServerVerdict ==
  \A r \in ReqIds :
    (Judged(r) /\ ~IsWeb(ChallengeOf(r))) =>
      LET cp == ChallengeOf(r)
          n == Len(cp.test_cases)
          log == execLog[r]
          allMatch == IF n > 0
                      THEN \A i \in 1..n :
                             Trim(log[i].output) = Trim(cp.test_cases[i].expectedOutput)
                      ELSE Trim(log[1].output) = Trim(cp.expected_output)
      IN /\ Len(log) = (IF n > 0 THEN n ELSE 1)
         /\ IF n > 0 THEN \A i \in 1..n : log[i].stdin = cp.test_cases[i].input
                     ELSE log[1].stdin = <<>>
         /\ res[r].passed = allMatch
         /\ SubmissionOf(call[r].student, call[r].body.topicId).passed = allMatch

\* C11 witness: the two-case challenge judged as passed after two executions,
\* the first fed the first case's input.
C11_Witness ==
  \E r \in ReqIds :
    /\ Judged(r)
    /\ ChallengeOf(r) = PythonCases
    /\ Len(execLog[r]) = 2
    /\ execLog[r][1].stdin = <<"3", "\n", "4">>
    /\ res[r].passed

\* A judging request with a topic and non-empty code, at any point after its
\* entry.
IsValidJudge(r) ==
  /\ IsJudge(r)
  /\ ~Blank(call[r].body, "topicId")
  /\ Has(call[r].body, "code")
  /\ call[r].body.code # <<>>

\* What a judged web submission must look like when the challenge expects
\* scripted validation: no execution, passed exactly when the client sent a
\* non-empty sequence of outcomes that are all "PASS", the stored output the
\* outcomes joined by newlines, or "Test results not received" with a failed
\* verdict when none was sent.
ScriptedWebVerdict(r) ==
  LET body == call[r].body
      supplied == Has(body, "testResults") /\ body.testResults # <<>>
      row == SubmissionOf(call[r].student, body.topicId)
  IN /\ execLog[r] = <<>>
     /\ pc[r] \notin { "fetch", "json" }
     /\ Judged(r) =>
          /\ res[r].passed =
               (supplied /\ \A i \in 1..Len(body.testResults) :
                              body.testResults[i] = <<"PASS">>)
          /\ row.passed = res[r].passed
          /\ supplied => row.output = Join(body.testResults, <<"\n">>)
          /\ ~supplied =>
               /\ ~res[r].passed
               /\ row.output = <<"Test", " ", "results", " ", "not", " ", "received">>

\* C12 as stated: the above for every web-evaluated challenge whose test
\* script is a non-empty string.
C12_NonEmptyScript ==
  \A r \in ReqIds :
    ( /\ IsValidJudge(r)
      /\ ChallengeOf(r) # NoRow
      /\ IsWeb(ChallengeOf(r))
      /\ ChallengeOf(r).test_script # <<>> )
    => ScriptedWebVerdict(r)

\* C12 amended: the above for every web-evaluated challenge whose test script
\* is non-empty after trimming whitespace.
C12_NonBlankScript ==
  \A r \in ReqIds :
    ( /\ IsValidJudge(r)
      /\ ChallengeOf(r) # NoRow
      /\ IsWeb(ChallengeOf(r))
      /\ Trim(ChallengeOf(r).test_script) # <<>> )
    => ScriptedWebVerdict(r)

\* C12 witness: a scripted web challenge judged as passed from two "PASS"
\* outcomes, stored with the outcomes joined by a newline.
C12_Witness ==
  \E r \in ReqIds :
    /\ Judged(r)
    /\ ChallengeOf(r) = WebScripted
    /\ Has(call[r].body, "testResults")
    /\ call[r].body.testResults = << <<"PASS">>, <<"PASS">> >>
    /\ res[r].passed
    /\ SubmissionOf(call[r].student, call[r].body.topicId).output
         = <<"PASS", "\n", "PASS">>

\* C13: for a web-evaluated challenge whose test script is empty or only
\* whitespace, every request with a topic and non-empty code is answered with
\* a verdict, and the row stored is passed = true with output "Completed" and
\* the submitted code, whatever test results the request carries.
C13_VisualAlwaysPasses ==
  \A r \in ReqIds :
    ( /\ IsValidJudge(r)
      /\ pc[r] = "done"
      /\ ChallengeOf(r) # NoRow
      /\ IsWeb(ChallengeOf(r))
      /\ Trim(ChallengeOf(r).test_script) = <<>> )
    => LET row == SubmissionOf(call[r].student, call[r].body.topicId)
       IN /\ res[r].status = 200
          /\ res[r].passed
          /\ row # NoRow
          /\ row.passed
          /\ row.output = <<"Completed">>
          /\ row.code = call[r].body.code

\* C13 witness: a challenge with a whitespace-only test script judged as
\* passed although the request carried a failing outcome.
C13_Witness ==
  \E r \in ReqIds :
    /\ Judged(r)
    /\ ChallengeOf(r) = WebVisual
    /\ Has(call[r].body, "testResults")
    /\ \E i \in 1..Len(call[r].body.testResults) :
         call[r].body.testResults[i] # <<"PASS">>
    /\ SubmissionOf(call[r].student, call[r].body.topicId).passed
    /\ SubmissionOf(call[r].student, call[r].body.topicId).output = <<"Completed">>

\* Two judged submissions of one learner to one topic with the same body
\* (code, language and test results).
SameSubmissionTwice(r1, r2) ==
  /\ r1 # r2
  /\ Judged(r1) /\ Judged(r2)
  /\ call[r1].student = call[r2].student
  /\ call[r1].body = call[r2].body

\* The request that is not a submission, if there is one, is a read.
NoOtherWrite ==
  \A q \in DOMAIN call \ ReqIds : call[q].op \in { "none", "getCodingSubmission" }

\* No request other than r1 and r2 writes to the pair of r1 or to its topic.
OnlySubmissions(r1, r2) ==
  /\ \A q \in ReqIds \ {r1, r2} :
       ~(IsValidJudge(q) /\ call[q].student = call[r1].student
                         /\ call[q].body.topicId = call[r1].body.topicId)
  /\ NoOtherWrite

\* The coding practice of topic t is the one the behaviour began with: no
\* updateTopic has deleted it to replace it.
ChallengeKept(t) ==
  \A q \in DOMAIN call \ ReqIds :
    ( /\ call[q].op = "updateTopic" /\ call[q].params.id = t
      /\ Has(call[q].body, "codingPractice") ) =>
      \/ pc[q] \in { "updateTopic", "deletePractice" }
      \/ pc[q] = "done" /\ res[q].status = 500

OneRowPerPair ==
  \A p \in Pairs : Cardinality(SubmissionsOf(p[1], p[2])) <= 1

\* C14 as stated: at most one coding_submissions row per (learner, topic), and
\* two submissions of the same code, language and test results get the same
\* verdict, which is the one stored.
C14_SameSubmissionSameVerdict ==
  /\ OneRowPerPair
  /\ \A r1, r2 \in ReqIds :
       (SameSubmissionTwice(r1, r2) /\ OnlySubmissions(r1, r2)) =>
         /\ res[r1].id = res[r2].id
         /\ res[r1].passed = res[r2].passed
         /\ SubmissionOf(call[r1].student, call[r1].body.topicId).passed
              = res[r1].passed

\* C14 amended: at most one row per (learner, topic); a resubmission is
\* answered with the id of the row the pair already has; two submissions of
\* the same code, language and test results get the same verdict whenever
\* the execution service returned the same results for both and the topic's
\* coding practice has not been replaced; and each submission that is saved
\* leaves its own verdict in the pair's one row, whatever wrote the row
\* before.
C14_SameExecutionSameVerdict ==
  /\ [](/\ OneRowPerPair
        /\ \A r1, r2 \in ReqIds :
             SameSubmissionTwice(r1, r2) =>
               /\ res[r1].id = res[r2].id
               /\ ( /\ execLog[r1] = execLog[r2]
                    /\ ChallengeKept(call[r1].body.topicId) ) => res[r1] = res[r2])
  /\ [][ \A r \in ReqIds :
           ( /\ IsJudge(r)
             /\ pc[r] = "upsertSubmission" /\ pc'[r] = "done"
             /\ res'[r].status = 200 ) =>
             LET before == SubmissionOf(call[r].student, call[r].body.topicId)
                 row == SubmissionOf(call[r].student, call[r].body.topicId)'
             IN /\ row # NoRow
                /\ before # NoRow => row.id = before.id
                /\ row.id = res'[r].id
                /\ row.passed = res'[r].passed
                /\ row.code = call[r].body.code
                /\ row.language = res'[r].language ]_vars

\* C14 witness: the same code submitted twice to a server-executed challenge,
\* executed with the same results both times, among them a post of a coding
\* score for the pair, and one row stored.
C14_Witness ==
  \E r1, r2 \in ReqIds :
    /\ SameSubmissionTwice(r1, r2)
    /\ execLog[r1] # <<>>
    /\ execLog[r1] = execLog[r2]
    /\ \E q \in DOMAIN call \ ReqIds :
         /\ call[q].op = "submitCodingScore"
         /\ pc[q] = "done" /\ res[q].status = 200
    /\ Cardinality(coding_submissions) = 1

-----------------------------------------------------------------------------
(* Stored submission: properties *)

IsGetSubmission(r) == call[r].op = "getCodingSubmission"

\* Request q submits to the pair that request g reads.
SubmitsToPairOf(q, g) ==
  /\ IsValidJudge(q)
  /\ call[q].student = call[g].student
  /\ call[q].body.topicId = call[g].params.topicId

\* The output of the verdict of a judged request, from what was submitted and
\* what the executions returned.
OutputAgainst(cp, r) ==
  LET body == call[r].body
      n == Len(cp.test_cases)
  IN IF IsWeb(cp)
     THEN IF Trim(cp.test_script) = <<>> THEN <<"Completed">>
          ELSE IF Has(body, "testResults") /\ body.testResults # <<>>
          THEN Join(body.testResults, <<"\n">>)
          ELSE <<"Test", " ", "results", " ", "not", " ", "received">>
     ELSE IF n > 0
     THEN Join([i \in 1..n |-> Trim(execLog[r][i].output)], <<"\n", "---", "\n">>)
     ELSE Trim(execLog[r][1].output)

JudgedOutput(r) == OutputAgainst(ChallengeOf(r), r)

\* C15: with requests made one after the other, a read of the stored
\* submission that follows a judged submission of the same learner and topic
\* (no other submission to the pair in between) returns the passed, code,
\* output and language of that verdict; a read of a pair nothing was
\* submitted to returns submission = null; no read fails.
C15_RoundTrip ==
  \A g \in ReqIds :
    (IsGetSubmission(g) /\ pc[g] = "done") =>
      /\ res[g].status = 200
      /\ (\A q \in ReqIds : q < g => ~(SubmitsToPairOf(q, g) /\ Judged(q)))
           => res[g].submission = NoRow
      /\ \A r \in ReqIds :
           ( /\ r < g
             /\ SubmitsToPairOf(r, g) /\ Judged(r)
             /\ \A q \in ReqIds : (r < q /\ q < g) => ~SubmitsToPairOf(q, g) )
           => /\ res[g].submission # NoRow
              /\ res[g].submission.passed = res[r].passed
              /\ res[g].submission.code = call[r].body.code
              /\ res[g].submission.output = JudgedOutput(r)
              /\ res[g].submission.language = res[r].language

\* C15 witness: a passing verdict of a server-executed challenge read back.
C15_Witness ==
  \E r, g \in ReqIds :
    /\ r < g
    /\ IsGetSubmission(g) /\ pc[g] = "done"
    /\ SubmitsToPairOf(r, g) /\ Judged(r)
    /\ execLog[r] # <<>>
    /\ res[r].passed
    /\ res[g].submission # NoRow
    /\ res[g].submission.passed
    /\ res[g].submission.output = <<"7">>

\* A submission with no code or empty code, or to a topic without a coding
\* practice.
HasEmptyCode(r) ==
  IsJudge(r) /\ (~Has(call[r].body, "code") \/ call[r].body.code = <<>>)

HasNoChallenge(r) ==
  IsJudge(r) /\ ~Blank(call[r].body, "topicId") /\ ChallengeOf(r) = NoRow

\* C16: no step of a submission with empty code, or to a topic that has no
\* challenge when the request reads it, changes a coding_submissions row or
\* calls the execution service; the request goes no further than the read of
\* the challenge and is answered 400 (empty code) or 404 (no challenge).
C16_ShortCircuit ==
  [][ \A r \in ReqIds :
        ( /\ \/ HasEmptyCode(r)'
             \/ HasNoChallenge(r)' /\ pc[r] \in { "idle", "readPractice" }
          /\ pc'[r] # pc[r] ) =>
          /\ coding_submissions' = coding_submissions
          /\ execLog'[r] = <<>>
          /\ pc'[r] \in { "readPractice", "done" }
          /\ pc'[r] = "done" =>
               res'[r].status = (IF HasEmptyCode(r)' THEN 400 ELSE 404) ]_vars

\* C16 witness: a submission with empty code refused while the pair's row,
\* written by an earlier submission, is stored; and one refused for a topic
\* without a challenge.
C16_Witness ==
  \E r \in ReqIds :
    /\ pc[r] = "done"
    /\ \/ /\ HasEmptyCode(r) /\ ~Blank(call[r].body, "topicId")
          /\ res[r].status = 400
          /\ SubmissionOf(call[r].student, call[r].body.topicId) # NoRow
       \/ /\ HasNoChallenge(r) /\ ~HasEmptyCode(r)
          /\ res[r].status = 404
          /\ coding_submissions # {}

-----------------------------------------------------------------------------
(* Leaderboard ranker: properties *)

\* A leaderboard request that was answered.
Ranked(r) == call[r].op = "getLeaderboard" /\ pc[r] = "done" /\ res[r].status = 200

HasEntry(s) == \E row \in LeaderboardView : row.student_id = s

\* 1 + the number of learners with strictly more points than s.
CompetitionRank(s) ==
  LET view == LeaderboardView
      total == (CHOOSE row \in view : row.student_id = s).total_points
  IN 1 + Cardinality({ row \in view : row.total_points > total })

Listed(r) ==
  \E i \in 1..Len(res[r].leaderboard) :
    res[r].leaderboard[i].studentId = call[r].student

\* C18: every learner with a positive total, listed among the top 50 or not,
\* is given myRank = 1 + the number of learners with strictly more points:
\* the k-th highest total gets k when no totals are equal, and learners with
\* equal totals get the same rank.
C18_RankIsCompetitionRank ==
  \A r \in ReqIds :
    (Ranked(r) /\ HasEntry(call[r].student)) =>
      res[r].myRank = CompetitionRank(call[r].student)

\* C19: over score tables that do not change during the request, a learner
\* with a positive total who is not in the returned list is given
\* myRank = 1 + the number of learners with strictly more points.
C19_RankOutsideTop ==
  \A r \in ReqIds :
    (Ranked(r) /\ HasEntry(call[r].student) /\ ~Listed(r)) =>
      res[r].myRank = CompetitionRank(call[r].student)

\* C19 witness: a learner with points left out of a full list of 50 and
\* given a rank.
C19_Witness ==
  \E r \in ReqIds :
    /\ Ranked(r)
    /\ HasEntry(call[r].student)
    /\ ~Listed(r)
    /\ Len(res[r].leaderboard) = 50
    /\ res[r].myRank > 50

\* C20: the returned list has at most 50 entries, no entry has fewer points
\* than the next, rank is the entry's position counted from 1, and
\* isCurrentUser is true exactly for the entry of the requesting learner.
C20_TopList ==
  \A r \in ReqIds :
    Ranked(r) =>
      LET list == res[r].leaderboard
      IN /\ Len(list) <= 50
         /\ \A i \in 1..Len(list) :
              /\ list[i].rank = i
              /\ list[i].isCurrentUser = (list[i].studentId = call[r].student)
              /\ i < Len(list) => list[i].totalPoints >= list[i + 1].totalPoints

\* C20 witness: a full list of 50 that holds the requester and two entries
\* with equal points, while more than 50 learners have points.
C20_Witness ==
  \E r \in ReqIds :
    /\ Ranked(r)
    /\ Len(res[r].leaderboard) = 50
    /\ Cardinality(LeaderboardView) > 50
    /\ \E i \in 1..50 : res[r].leaderboard[i].isCurrentUser
    /\ \E i \in 1..49 :
         res[r].leaderboard[i].totalPoints = res[r].leaderboard[i + 1].totalPoints


\* The sum of the best percentages of learner s, in hundredths.
BestPercentageSum(s) ==
  LET rows == { p \in DOMAIN practice_scores : p[1] = s /\ practice_scores[p] # NoRow }
      RECURSIVE Sum(_)
      Sum(P) == IF P = {} THEN 0
                ELSE LET p == CHOOSE x \in P : TRUE
                     IN practice_scores[p].percentage + Sum(P \ {p})
  IN Sum(rows)

\* The points the stored rows give learner s: the rounded sum of the best
\* percentages, and 100 for each submission that passed.
PointsOf(s) ==
  LET practice == (BestPercentageSum(s) + 50) \div 100
      coding == 100 * Cardinality({ row \in coding_submissions :
                                      row.student_id = s /\ row.passed })
  IN [practicePoints |-> practice, codingPoints |-> coding,
      totalPoints |-> practice + coding]

\* The learners whose rows give them points.
WithPoints == { s \in StudentsTable : PointsOf(s).totalPoints > 0 }

\* C21: the entries of the leaderboard are a function of the stored rows: an
\* answered request lists learners with their practicePoints = round(sum of
\* best percentages), codingPoints = 100 x passed submissions and totalPoints
\* = the sum of the two; only learners with totalPoints > 0 are listed, all of
\* them when they are at most 50, and the requester is listed or ranked
\* exactly when totalPoints > 0.
C21_EntriesFromRows ==
  \A r \in ReqIds :
    Ranked(r) =>
      LET list == res[r].leaderboard
          points == [s \in StudentsTable |-> PointsOf(s)]
          withPoints == { s \in StudentsTable : points[s].totalPoints > 0 }
      IN /\ \A i \in 1..Len(list) :
              /\ list[i].studentId \in withPoints
              /\ list[i].practicePoints = points[list[i].studentId].practicePoints
              /\ list[i].codingPoints = points[list[i].studentId].codingPoints
              /\ list[i].totalPoints = points[list[i].studentId].totalPoints
              /\ list[i].totalPoints = list[i].practicePoints + list[i].codingPoints
         /\ \A i, j \in 1..Len(list) :
              list[i].studentId = list[j].studentId => i = j
         /\ Len(list) = (IF Cardinality(withPoints) < 50
                         THEN Cardinality(withPoints) ELSE 50)
         /\ (Listed(r) \/ res[r].myRank # null) <=> call[r].student \in withPoints

\* C21 witness: a list that holds a learner whose points come from rounding a
\* sum of percentages up and from passed submissions, asked for by a learner
\* with rows and no points.
C21_Witness ==
  \E r \in ReqIds :
    /\ Ranked(r)
    /\ call[r].student \notin WithPoints
    /\ \E p \in DOMAIN practice_scores :
         p[1] = call[r].student /\ practice_scores[p] # NoRow
    /\ \E i \in 1..Len(res[r].leaderboard) :
         LET e == res[r].leaderboard[i]
         IN /\ e.studentId \in Contenders
            /\ BestPercentageSum(e.studentId) % 100 >= 50
            /\ e.practicePoints * 100 > BestPercentageSum(e.studentId)
    /\ \E i \in 1..Len(res[r].leaderboard) :
         LET e == res[r].leaderboard[i]
         IN e.studentId \in Contenders /\ e.codingPoints = 100
            /\ \E row \in coding_submissions :
                 row.student_id = e.studentId /\ ~row.passed


\* C22: a requester without a leaderboard entry, with rows that give no
\* points or with no score row at all, is answered myRank = null.
C22_NoEntryNoRank ==
  \A r \in ReqIds :
    (Ranked(r) /\ PointsOf(call[r].student).totalPoints = 0) =>
      res[r].myRank = null

\* C22 witness: myRank = null for a requester whose best percentage is 0 and
\* whose submission failed, while 50 learners are listed.
C22_Witness ==
  \E r \in ReqIds :
    /\ Ranked(r)
    /\ res[r].myRank = null
    /\ Len(res[r].leaderboard) = 50
    /\ PointsOf(call[r].student).totalPoints = 0
    /\ \E t \in Topics : practice_scores[<<call[r].student, t>>] # NoRow
    /\ \E row \in coding_submissions :
         row.student_id = call[r].student /\ ~row.passed


-----------------------------------------------------------------------------
(* Progress aggregator *)

\* Score tables over three topics: for every learner one of the profiles.
ProgressTopics == Topics \cup { "t3" }

ProgressProfiles ==
  { [t1 |-> NoRow, t2 |-> NoRow, t3 |-> NoRow, passed |-> {}, failed |-> {}],
    [t1 |-> BestScore(1, 7), t2 |-> BestScore(5, 8), t3 |-> BestScore(6, 7),
     passed |-> {"t1"}, failed |-> {"t2"}],
    [t1 |-> BestScore(1, 1), t2 |-> NoRow, t3 |-> NoRow,
     passed |-> {"t1", "t2"}, failed |-> {}],
    [t1 |-> BestScore(2, 3), t2 |-> BestScore(2, 3), t3 |-> NoRow,
     passed |-> {}, failed |-> {}],
    [t1 |-> NoRow, t2 |-> NoRow, t3 |-> BestScore(101, 200),
     passed |-> {}, failed |-> {"t1"}] }

InitProgress ==
  /\ \E profile \in [Students -> ProgressProfiles] :
       /\ practice_scores = [p \in Students \X ProgressTopics |-> profile[p[1]][p[2]]]
       /\ coding_submissions = SubmissionsFrom(profile)
  /\ practice_attempts = {}
  /\ coding_practices = [t \in Topics |-> NoRow]
  /\ courses = [c \in Courses |-> [name |-> <<"Basics">>]]
  /\ topics = [t \in ProgressTopics |-> [course_id |-> "c1"]]
  /\ pc = [r \in ReqIds |-> "idle"]
  /\ call = [r \in ReqIds |-> NoCall]
  /\ loc = [r \in ReqIds |-> NoLoc]
  /\ res = [r \in ReqIds |-> NoRes]
  /\ storeCalls = [r \in ReqIds |-> 0]
  /\ execLog = [r \in ReqIds |-> <<>>]
  /\ socket = [r \in ReqIds |-> "open"]

\* Requests for the progress of a learner, one after the other.
NextProgress ==
  \E r \in ReqIds :
    \/ /\ \A q \in ReqIds : pc[q] = "idle"
       /\ \E s \in Students : ProgressInvoke(r, s)
    \/ ProgressReadScores(r)
    \/ ProgressReadSubmissions(r)
    \/ Release(r)

SpecProgress == InitProgress /\ [][NextProgress]_vars

\* A progress request that was answered.
IsProgress(r) == call[r].op = "getMyProgress" /\ pc[r] = "done" /\ res[r].status = 200

\* The topics learner s has a best score or a submission for.
TopicsOf(s) ==
  { p[2] : p \in { x \in DOMAIN practice_scores :
                     x[1] = s /\ practice_scores[x] # NoRow } }
    \cup { row.topic_id : row \in { x \in coding_submissions : x.student_id = s } }

\* C23: an answered progress request holds practicePoints = round(sum of the
\* learner's best percentages), codingPoints = 100 x the learner's passed
\* submissions, totalPoints = practicePoints + codingPoints and
\* topicsCompleted = the number of distinct topics with a best score or a
\* submission of the learner.
C23_ProgressStats ==
  \A r \in ReqIds :
    IsProgress(r) =>
      /\ res[r].stats.practicePoints = PointsOf(call[r].student).practicePoints
      /\ res[r].stats.codingPoints = PointsOf(call[r].student).codingPoints
      /\ res[r].stats.totalPoints =
           res[r].stats.practicePoints + res[r].stats.codingPoints
      /\ res[r].stats.topicsCompleted = Cardinality(TopicsOf(call[r].student))


-----------------------------------------------------------------------------
(* Attempt detail *)

\* Practice attempts and requests for the detail of an attempt by any
\* learner, up to MaxInFlight requests at a time. The id of an attempt is the
\* id of the request that stored it; 0 is the id of no attempt.
NextDetail ==
  \E r \in ReqIds :
    \/ /\ Cardinality(InFlight) < MaxInFlight
       /\ \E s \in Students :
            \/ \E body \in { b \in PracticeAttemptBodies(1) : ~Blank(b, "topicId") } :
                 PracticeAttemptInvoke(r, s, body)
            \/ \E attemptId \in ReqIds \cup {0} : AttemptDetailInvoke(r, s, attemptId)
    \/ PracticeAttemptStep(r)
    \/ AttemptDetailRead(r)

SpecDetail == Init /\ [][NextDetail]_vars

IsDetail(r) == call[r].op = "getPracticeAttemptDetail"

\* C24: the answer to a request for the detail of an attempt is the attempt
\* with its answers when the stored attempt of that id is owned by the
\* requester; when the attempt is owned by another learner or no attempt has
\* the id, the answer is 404 and holds a message and no field of an attempt.
C24_OwnAttemptOnly ==
  [][ \A r \in ReqIds :
        (IsDetail(r) /\ pc[r] = "readAttempt" /\ pc'[r] = "done") =>
          LET stored == { row \in practice_attempts :
                            row.id = call[r].params.attemptId }
          IN IF \E row \in stored : row.student_id = call[r].student
             THEN \E row \in stored :
                    /\ res'[r].status = 200
                    /\ res'[r].id = row.id
                    /\ res'[r].answers = row.answers
                    /\ res'[r].attemptNumber = row.attempt_number
                    /\ res'[r].score = row.score
                    /\ res'[r].total = row.total
                    /\ res'[r].passed = row.passed
             ELSE /\ res'[r].status = 404
                  /\ DOMAIN res'[r] = { "status", "message" } ]_vars

\* C24 witness: a learner asked for the detail of a stored attempt of another
\* learner, with answers, and was answered 404.
C24_Witness ==
  \E r \in ReqIds :
    /\ IsDetail(r) /\ pc[r] = "done"
    /\ res[r].status = 404
    /\ \E row \in practice_attempts :
         /\ row.id = call[r].params.attemptId
         /\ row.student_id # call[r].student
         /\ row.answers # <<>>


-----------------------------------------------------------------------------
(* Test-case loop *)

\* C25: in the judging of a server-executed challenge with n >= 1 test cases,
\* every answer of the execution service, a failure included, is the answer
\* to the one pending execution, that of case k, whose stdin is the k-th
\* stored input, and comes when the results of the k - 1 cases before are
\* recorded; after it the handler waits for case k + 1, or after case n goes
\* on to save the verdict. The save answers 200 with n results in test-case
\* order, each holding the output of its execution, and stores the verdict.
C25_CasesInOrder ==
  [][ \A r \in ReqIds :
        (IsValidJudge(r) /\ pc[r] \in { "fetch", "json", "upsertSubmission" }
           /\ ~IsWeb(ChallengeOf(r)) /\ Len(ChallengeOf(r).test_cases) >= 1) =>
          LET testCases == ChallengeOf(r).test_cases
              n == Len(testCases)
              k == Len(execLog[r]) + 1
          IN /\ (pc[r] = "fetch" /\ pc'[r] # pc[r]) =>
                  pc'[r] \in { "json", "upsertSubmission" }
             /\ (pc[r] \in { "fetch", "json" } /\ execLog'[r] # execLog[r]) =>
                  /\ Len(loc[r].results) = k - 1
                  /\ k <= n
                  /\ Len(execLog'[r]) = k
                  /\ SubSeq(execLog'[r], 1, k - 1) = execLog[r]
                  /\ execLog'[r][k].stdin = testCases[k].input
                  /\ IF k < n
                     THEN /\ pc'[r] = "fetch"
                          /\ Len(loc'[r].results) = k
                          /\ SubSeq(loc'[r].results, 1, k - 1) = loc[r].results
                          /\ loc'[r].results[k].input = testCases[k].input
                     ELSE pc'[r] = "upsertSubmission"
             /\ (pc[r] = "upsertSubmission" /\ pc'[r] # pc[r]) =>
                  /\ pc'[r] = "done"
                  /\ res'[r].status = 200
                  /\ Len(res'[r].results) = n
                  /\ \A i \in 1..n :
                       /\ res'[r].results[i].input = testCases[i].input
                       /\ res'[r].results[i].actual = Trim(execLog[r][i].output)
                  /\ SubmissionOf(call[r].student, call[r].body.topicId)' # NoRow
                  /\ SubmissionOf(call[r].student, call[r].body.topicId)'.passed =
                       res'[r].passed
                  /\ SubmissionOf(call[r].student, call[r].body.topicId)'.code =
                       call[r].body.code ]_vars

\* C25 witness: the two-case challenge judged after the execution of its
\* first case failed and that of its second case succeeded: two results, the
\* verdict stored.
C25_Witness ==
  \E r \in ReqIds :
    /\ Judged(r)
    /\ ChallengeOf(r) = PythonCases
    /\ Len(execLog[r]) = 2
    /\ ~execLog[r][1].success
    /\ execLog[r][2].success
    /\ Len(res[r].results) = 2
    /\ res[r].results[2].passed
    /\ SubmissionOf(call[r].student, call[r].body.topicId) # NoRow


-----------------------------------------------------------------------------
(* Every operation of the engine *)

\* The scores a learner starts with: none, or best scores on both topics, one
\* stored attempt, a passed and a failed submission.
StoredProfiles ==
  { [t1 |-> NoRow, t2 |-> NoRow, passed |-> {}, failed |-> {}],
    [t1 |-> BestScore(1, 1), t2 |-> BestScore(1, 2), passed |-> {"t1"},
     failed |-> {"t2"}] }

\* The attempt behind the best score on t1 of a profile.
StoredAttempts(profile) ==
  { [id |-> 100 + StudentIndex(s), student_id |-> s, topic_id |-> "t1",
     attempt_number |-> 1, score |-> profile[s].t1.score,
     total |-> profile[s].t1.total, percentage |-> profile[s].t1.percentage,
     passed |-> Passed(profile[s].t1.percentage),
     answers |-> << [selectedOption |-> "A", correctOption |-> "A"] >>] :
      s \in { x \in DOMAIN profile : profile[x].t1 # NoRow } }

\* Topic t1 has a server-executed challenge with two cases, topic t2 a visual
\* web challenge; every learner has one of the stored profiles, s2 the one
\* with rows.
InitEngine ==
  /\ \E profile \in { f \in [Students -> StoredProfiles] : f["s2"].t1 # NoRow } :
       /\ practice_scores = ScoresOf(profile)
       /\ coding_submissions = SubmissionsFrom(profile)
       /\ practice_attempts = StoredAttempts(profile)
  /\ coding_practices = [t \in Topics |-> IF t = "t1" THEN PythonCases ELSE WebVisual]
  /\ InitContent
  /\ pc = [r \in ReqIds |-> "idle"]
  /\ call = [r \in ReqIds |-> NoCall]
  /\ loc = [r \in ReqIds |-> NoLoc]
  /\ res = [r \in ReqIds |-> NoRes]
  /\ storeCalls = [r \in ReqIds |-> 0]
  /\ execLog = [r \in ReqIds |-> <<>>]
  /\ socket = [r \in ReqIds |-> "open"]

\* The bodies and replies of the requests of the engine.
EngineAttemptBodies ==
  { body \in PracticeAttemptBodies(MaxRaceAnswers) :
      ~Blank(body, "topicId") /\ Has(body, "answers") /\ Len(body.answers) = 1 }
EngineScoreBodies ==
  { body \in PracticeScoreBodies :
      ~Blank(body, "topicId") /\ Has(body, "score") /\ Has(body, "total")
        /\ body.total = 1 /\ body.score <= 1 }
EngineSubmissionBodies ==
  { body \in SubmissionBodies : Has(body, "code") /\ body.code = <<"print(a+b)">> }
EngineReplies ==
  { reply \in SubmissionReplies : reply.kind = "json" => reply.run.stderr = <<>> }
EngineCodingBodies ==
  { body \in CodingScoreBodies :
      /\ Has(body, "topicId") /\ body.topicId # "t2"
      /\ Has(body, "passed") /\ ~Has(body, "code") }

\* The challenges, bodies and replies of the overlapping submissions.
OverlapSpecs == { PythonFallback, WebScripted, WebNoScript }
OverlapBodies == SubmissionBodies
OverlapReplies ==
  { reply \in SubmissionReplies : reply.kind = "json" => reply.run.stderr = <<>> }
OverlapUpdateBodies == UpdateTopicBodies
OverlapScoreBodies ==
  { body \in CodingScoreBodies :
      /\ Has(body, "topicId") /\ body.topicId = "t1"
      /\ Has(body, "passed") /\ ~Has(body, "language") }

EngineCreateBodies ==
  { body \in CreateTopicBodies : ~Has(body, "order") }
EngineUpdateBodies ==
  { body \in UpdateTopicBodies :
      Has(body, "codingPractice") /\ body.codingPractice \in { SumPractice, UntitledPractice } }

\* Requests of every kind by any learner (the posts of a coding score by
\* s1) and the content requests of the administrator, one after the other.
\* With two learners the requester of the
\* leaderboard is in the list or has no entry: the count of the learners
\* above is never asked for.
NextEngine ==
  \E r \in ReqIds :
    \/ /\ InFlight = {}
       /\ \/ \E body \in EngineCreateBodies : CreateTopicInvoke(r, body)
          \/ \E body \in EngineUpdateBodies : UpdateTopicInvoke(r, "t1", body)
          \/ DeleteTopicInvoke(r, "t2")
          \/ \E body \in CreateCourseBodies : CreateCourseInvoke(r, body)
          \/ \E id \in DOMAIN courses, body \in UpdateCourseBodies :
               UpdateCourseInvoke(r, id, body)
          \/ \E id \in DOMAIN courses : DeleteCourseInvoke(r, id)
    \/ ContentStep(r)
    \/ /\ InFlight = {}
       /\ \E body \in EngineCodingBodies : CodingScoreInvoke(r, "s1", body)
    \/ /\ InFlight = {}
       /\ \E s \in Students :
            \/ \E body \in EngineAttemptBodies : PracticeAttemptInvoke(r, s, body)
            \/ \E body \in EngineScoreBodies : PracticeScoreInvoke(r, s, body)
            \/ \E body \in EngineSubmissionBodies : CodingChallengeInvoke(r, s, body)
            \/ GetSubmissionInvoke(r, s, "t1")
            \/ \E t \in PracticeTopics : GetAttemptsInvoke(r, s, t)
            \/ AttemptDetailInvoke(r, s, 100 + StudentIndex("s2"))
            \/ ProgressInvoke(r, s)
            \/ LeaderboardInvoke(r, s)
    \/ PracticeAttemptStep(r)
    \/ PracticeScoreUpsert(r)
    \/ CodingChallengeReadPractice(r)
    \/ \E reply \in EngineReplies : CodingChallengePistonReply(r, reply)
    \/ CodingChallengePistonHeaders(r)
    \/ CodingChallengeUpsert(r)
    \/ CodingScoreUpsert(r)
    \/ GetSubmissionRead(r)
    \/ GetAttemptsRead(r)
    \/ AttemptDetailRead(r)
    \/ ProgressReadScores(r)
    \/ ProgressReadSubmissions(r)
    \/ LeaderboardReadTop(r)
    \/ LeaderboardReadMine(r)

SpecEngine == InitEngine /\ [][NextEngine]_vars

\* The rows of the three score tables that belong to a learner other than s,
\* in this state.
RowsOfOthers(s) ==
  [attempts |-> { row \in practice_attempts : row.student_id # s },
   scores |-> { <<p, practice_scores[p]>> :
                  p \in { x \in DOMAIN practice_scores : x[1] # s } },
   submissions |-> { row \in coding_submissions : row.student_id # s }]

\* C26: a step of a request made for learner A, of any operation, leaves
\* every practice_attempts, practice_scores and coding_submissions row of
\* every other learner as it was, and leaves coding_practices as it was.
C26_NoCrossLearnerMutation ==
  [][ \A r \in ReqIds :
        ( /\ Has(call'[r], "student")
          /\ pc'[r] # pc[r] \/ loc'[r] # loc[r] \/ execLog'[r] # execLog[r] ) =>
          /\ \A s \in Students :
               call'[r].student = s => RowsOfOthers(s)' = RowsOfOthers(s)
          /\ coding_practices' = coding_practices ]_vars

\* C26 witness: a learner's submitCodingScore has written the learner's row
\* for a topic another learner has a row for, and that learner has attempts
\* and best scores as well.
C26_Witness ==
  \E r \in ReqIds :
    /\ call[r].op = "submitCodingScore" /\ pc[r] = "done" /\ res[r].status = 200
    /\ \E row \in coding_submissions :
         /\ row.student_id # call[r].student
         /\ row.topic_id = call[r].body.topicId
         /\ row.passed # call[r].body.passed
    /\ \E row \in practice_attempts : row.student_id # call[r].student
    /\ \E q \in ReqIds :
         call[q].op = "submitPracticeAttempt" /\ pc[q] = "done" /\ res[q].status = 200


-----------------------------------------------------------------------------
(* Overlapping submissions *)

\* The id of the one request of a behaviour that is not a judged submission:
\* a request of the administrator, or the learner's post of a coding score
\* or read of the stored submission.
OtherIds == { 0 }
OverlapIds == ReqIds \cup OtherIds

\* Topic t1 has a coding practice, topic t2 has none, and no request has been
\* made.
InitOverlap ==
  /\ practice_attempts = {}
  /\ practice_scores = [p \in Pairs |-> NoRow]
  /\ coding_submissions = {}
  /\ InitContent
  /\ \E cp \in OverlapSpecs :
       coding_practices = [t \in Topics |-> IF t = "t1" THEN cp ELSE NoRow]
  /\ pc = [r \in OverlapIds |-> "idle"]
  /\ call = [r \in OverlapIds |-> NoCall]
  /\ loc = [r \in OverlapIds |-> NoLoc]
  /\ res = [r \in OverlapIds |-> NoRes]
  /\ storeCalls = [r \in OverlapIds |-> 0]
  /\ execLog = [r \in OverlapIds |-> <<>>]
  /\ socket = [r \in OverlapIds |-> "open"]

\* Submissions of one learner, up to MaxInFlight at a time, and at any time
\* among them one other request that reads or writes what the judge reads
\* or writes: the replacement of the topic's coding practice (updateTopic)
\* or the removal of the topic (deleteTopic, deleteCourse) by the
\* administrator, or the learner's post of a coding score (submitCodingScore)
\* or read of the stored submission.
NextOverlap ==
  \/ \E r \in ReqIds :
       /\ Cardinality(InFlight) < MaxInFlight
       /\ \E body \in OverlapBodies : CodingChallengeInvoke(r, "s1", body)
  \/ \E r \in OtherIds :
       \/ \E body \in OverlapUpdateBodies : UpdateTopicInvoke(r, "t1", body)
       \/ DeleteTopicInvoke(r, "t1")
       \/ DeleteCourseInvoke(r, "c1")
       \/ \E body \in OverlapScoreBodies : CodingScoreInvoke(r, "s1", body)
       \/ GetSubmissionInvoke(r, "s1", "t1")
  \/ \E r \in OverlapIds :
       \/ UpdateTopicUpdate(r)
       \/ UpdateTopicDeletePractice(r)
       \/ UpdateTopicInsertPractice(r)
       \/ DeleteTopicDelete(r)
       \/ DeleteCourseDelete(r)
       \/ CodingScoreUpsert(r)
       \/ CodingChallengeReadPractice(r)
       \/ \E reply \in OverlapReplies : CodingChallengePistonReply(r, reply)
       \/ CodingChallengePistonHeaders(r)
       \/ CodingChallengeUpsert(r)
       \/ GetSubmissionRead(r)

SpecOverlap == InitOverlap /\ [][NextOverlap]_vars

\* Judged requests a and b of one learner for one topic, b started after a.
StartedAfter(a, b) ==
  /\ a < b
  /\ Judged(a) /\ Judged(b)
  /\ call[a].student = call[b].student
  /\ call[a].body.topicId = call[b].body.topicId

\* C27 as claimed: when two submissions of a learner to a topic have both
\* been judged, the stored row holds, as long as the topic is there, the
\* verdict and the code of the one that was started later.
C27_LaterSubmissionWins ==
  \A a, b \in ReqIds :
    (StartedAfter(a, b) /\ NoOtherWrite) =>
      LET row == SubmissionOf(call[b].student, call[b].body.topicId)
      IN /\ row.code = call[b].body.code
         /\ row.passed = res[b].passed
         /\ row.output = JudgedOutput(b)

\* The step in which request r saves its verdict.
SavesVerdict(r) ==
  /\ IsJudge(r)
  /\ pc[r] = "upsertSubmission" /\ pc'[r] = "done"
  /\ res'[r].status = 200

\* The step in which request r saves the coding score of its body.
SavesScore(r) ==
  /\ call[r].op = "submitCodingScore"
  /\ pc[r] = "upsertCodingScore" /\ pc'[r] = "done"
  /\ res'[r].status = 200

\* The step in which the row of topic t leaves topics.
RemovesTopic(t) == Get(topics, t) # NoRow /\ Get(topics, t)' = NoRow

\* C27: the stored row of a pair holds what was saved last for the pair,
\* whichever request was started first: the save of a judged submission
\* replaces the pair's row by its own verdict, code and output, judged
\* against the challenge the request read; the save of a posted coding score
\* replaces it by the passed and the code of its body; and no other step
\* changes the row but the removal of the topic, which deletes it.
C27_LastSaveWins ==
  [][ /\ \A r \in ReqIds :
           SavesVerdict(r) =>
             LET row == SubmissionOf(call[r].student, call[r].body.topicId)'
             IN /\ row # NoRow
                /\ row.code = call[r].body.code
                /\ row.passed = res'[r].passed
                /\ row.output = OutputAgainst(loc[r].cp, r)
      /\ \A r \in DOMAIN call :
           SavesScore(r) =>
             LET row == SubmissionOf(call[r].student, call[r].body.topicId)'
             IN /\ row # NoRow
                /\ row.passed = call[r].body.passed
                /\ row.code = (IF Has(call[r].body, "code") THEN call[r].body.code
                                ELSE <<>>)
      /\ \A s \in Students, t \in Topics :
           SubmissionOf(s, t)' # SubmissionOf(s, t) =>
             \/ \E r \in DOMAIN call :
                  /\ SavesVerdict(r) \/ SavesScore(r)
                  /\ call[r].student = s /\ call[r].body.topicId = t
             \/ RemovesTopic(t) /\ SubmissionOf(s, t)' = NoRow
    ]_vars

\* C27 witness: two judged submissions of a learner to a topic with different
\* code and different verdicts, and the row holds the code and the verdict
\* of the one started first.
C27_Witness ==
  \E a, b \in ReqIds :
    /\ StartedAfter(a, b)
    /\ call[a].body.code # call[b].body.code
    /\ res[a].passed # res[b].passed
    /\ SubmissionOf(call[a].student, call[a].body.topicId).code = call[a].body.code
    /\ SubmissionOf(call[a].student, call[a].body.topicId).passed = res[a].passed


-----------------------------------------------------------------------------
(* The origin of a pass *)

\* The judging of request r produced a passing verdict: every test case
\* matched, or every outcome the client sent is "PASS", or the challenge is a
\* visual one.
PassingVerdict(r) ==
  LET cp == ChallengeOf(r)
      body == call[r].body
      n == Len(cp.test_cases)
  IN IF IsWeb(cp)
     THEN \/ Trim(cp.test_script) = <<>>
          \/ /\ Has(body, "testResults") /\ body.testResults # <<>>
             /\ \A i \in 1..Len(body.testResults) : body.testResults[i] = <<"PASS">>
     ELSE IF n > 0
     THEN /\ Len(execLog[r]) = n
          /\ \A i \in 1..n :
               Trim(execLog[r][i].output) = Trim(cp.test_cases[i].expectedOutput)
     ELSE /\ Len(execLog[r]) = 1
          /\ Trim(execLog[r][1].output) = Trim(cp.expected_output)

\* C28: every step that writes a coding_submissions row with passed = true is
\* the save of a judging of that learner's submission to that topic whose
\* verdict is passing: no operation stores a passed flag the caller chose.
C28_PassedOnlyByJudging ==
  [][ \A s \in Students, t \in Topics :
        ( /\ SubmissionOf(s, t)' # SubmissionOf(s, t)
          /\ SubmissionOf(s, t)' # NoRow
          /\ SubmissionOf(s, t)'.passed ) =>
          \E r \in ReqIds :
            /\ SavesVerdict(r)
            /\ call[r].student = s /\ call[r].body.topicId = t
            /\ PassingVerdict(r) ]_vars


-----------------------------------------------------------------------------
(* Ranks at the end of the list *)

\* An answered leaderboard request with a full list that does not hold the
\* requester.
FullListWithoutRequester(r) ==
  /\ Ranked(r)
  /\ Len(res[r].leaderboard) = 50
  /\ \A i \in 1..50 : ~res[r].leaderboard[i].isCurrentUser


-----------------------------------------------------------------------------
(* Ranks while scores are written *)

\* The crowd, and below it s1 with 200 points, s2 with 150 and s3 with 100.
RankingProfile ==
  [s \in Contenders \cup Crowd |->
     IF s \in Crowd THEN CrowdProfile(CrowdIndex(s))
     ELSE IF s = "s1"
     THEN [t1 |-> NoRow, t2 |-> NoRow, passed |-> {"t1", "t2"}, failed |-> {}]
     ELSE IF s = "s2"
     THEN [t1 |-> NoRow, t2 |-> BestScore(1, 2), passed |-> {"t1"}, failed |-> {}]
     ELSE [t1 |-> NoRow, t2 |-> BestScore(1, 1), passed |-> {}, failed |-> {"t1"}]]

InitRanking ==
  /\ practice_scores = ScoresOf(RankingProfile)
  /\ coding_submissions = SubmissionsFrom(RankingProfile)
  /\ practice_attempts = {}
  /\ coding_practices = [t \in Topics |-> NoRow]
  /\ InitContent
  /\ pc = [r \in ReqIds |-> "idle"]
  /\ call = [r \in ReqIds |-> NoCall]
  /\ loc = [r \in ReqIds |-> NoLoc]
  /\ res = [r \in ReqIds |-> NoRes]
  /\ storeCalls = [r \in ReqIds |-> 0]
  /\ execLog = [r \in ReqIds |-> <<>>]
  /\ socket = [r \in ReqIds |-> "open"]

\* Leaderboard requests and posts of a practice score by the contenders, up
\* to MaxInFlight requests at a time.
NextRanking ==
  \E r \in ReqIds :
    \/ /\ Cardinality(InFlight) < MaxInFlight
       /\ \E s \in Contenders :
            \/ LeaderboardInvoke(r, s)
            \/ \E body \in PracticeScoreBodies : PracticeScoreInvoke(r, s, body)
    \/ LeaderboardReadTop(r)
    \/ LeaderboardReadMine(r)
    \/ LeaderboardCountAbove(r)
    \/ PracticeScoreUpsert(r)

SpecRanking == InitRanking /\ [][NextRanking]_vars

\* The rank of learner s over the score tables scores and submissions: 1 + the
\* number of learners with strictly more points, null without points.
RankIn(scores, submissions, s) ==
  LET Total(x) ==
        LET rows == { p \in DOMAIN scores : p[1] = x /\ scores[p] # NoRow }
            RECURSIVE Sum(_)
            Sum(P) == IF P = {} THEN 0
                      ELSE LET p == CHOOSE y \in P : TRUE
                           IN scores[p].percentage + Sum(P \ {p})
        IN ((Sum(rows) + 50) \div 100)
             + 100 * Cardinality({ row \in submissions :
                                     row.student_id = x /\ row.passed })
      total == [x \in { p[1] : p \in DOMAIN scores } |-> Total(x)]
  IN IF total[s] = 0 THEN null
     ELSE 1 + Cardinality({ x \in DOMAIN total : total[x] > total[s] })

\* The requests that wrote a score.
ScoreWrites ==
  { r \in ReqIds : call[r].op = "submitPracticeScore" /\ pc[r] = "done"
                     /\ res[r].status = 200 }

\* C30: the myRank given to a requester outside the list is the requester's
\* rank in a state of the score tables that existed during the request. In
\* a behaviour with at most one write of a score the tables have been in two
\* states: as they were at the start and as they are.
C30_RankOfSomeState ==
  \A r \in ReqIds :
    (Ranked(r) /\ ~Listed(r) /\ Cardinality(ScoreWrites) <= 1) =>
      res[r].myRank \in
        { RankIn(ScoresOf(RankingProfile), SubmissionsFrom(RankingProfile),
                 call[r].student),
          RankIn(practice_scores, coding_submissions, call[r].student) }

====
